---- MODULE Spec2Model ----
(***************************************************************************)
(* A model of libzbc's core (lib/zbc.c): the vectored I/O splitter          *)
(* (zbc_preadv / zbc_pwritev over zbc_do_preadv / zbc_do_pwritev and        *)
(* zbc_iov_convert), the backend dispatcher (zbc_open and                   *)
(* zbc_device_is_zoned), the report iterator (zbc_report_zones and         *)
(* zbc_list_zones), the life of a handle and the validation of its          *)
(* operations' arguments, and the ATA backend: zbc_ata_open and             *)
(* zbc_ata_close, the signature classification, the READ/WRITE DMA EXT      *)
(* CDBs and zbc_ata_report_zones.                                           *)
(*                                                                         *)
(* All device addresses and sizes are in 512-byte sectors, as in the        *)
(* library's API; zbc_iov_convert works in bytes, as in the code.           *)
(***************************************************************************)
EXTENDS Integers, Sequences, FiniteSets, TLC

\* ------------------------------------------------------------------------
\* Bounds of the model.
\* ------------------------------------------------------------------------

\* Largest number of entries of a caller's I/O vector.
MaxIov == 2

\* Largest length, in sectors, of one entry of a caller's I/O vector.
MaxLen == 2

\* Device capacity, in units of the largest physical block of BlockSizes.
CapUnits == 3

\* ------------------------------------------------------------------------
\* Program constants.
\* ------------------------------------------------------------------------

\* Bytes per sector: the code converts with << 9.
SectorSize == 512

\* <limits.h> SSIZE_MAX of an ILP32 build, the largest value TLC's integers hold.
SSIZE_MAX == 2147483647

\* The sectors whose byte count, << 9, wraps to 0 in the 32 bits of that
\* build's size_t: 2^32 / 512.
SizeWrapSectors == 8388608

EPERM == 1
ENOENT == 2
EIO == 5
ENXIO == 6
ENOMEM == 12
EACCES == 13
ENODEV == 19
EINVAL == 22

\* ------------------------------------------------------------------------
\* The device handle (struct zbc_device, zbd_info): geometry fixed at open.
\* ------------------------------------------------------------------------

\* (logical block size, physical block size) in bytes: power-of-two
\* multiples of 512, physical >= logical.
BlockSizes == { <<512, 512>>, <<512, 1024>>, <<1024, 1024>> }

\* Per-command transfer caps, in sectors (multiples of every physical block).
MaxRwChoices == { 2, 4 }

Devices ==
    { [ zbd_lblock_size    |-> bs[1],
        zbd_pblock_size    |-> bs[2],
        zbd_sectors        |-> CapUnits * 2,
        zbd_max_rw_sectors |-> m,
        test_mode          |-> t ] :
      bs \in BlockSizes, m \in MaxRwChoices, t \in BOOLEAN }

\* zbc.h: zbc_test_mode(dev), the test-mode open flag of the handle.
zbc_test_mode(d) == d.test_mode

\* sect << 9 in a size_t: the byte count, modulo 2^32.
sect_bytes(sect) == (sect % SizeWrapSectors) * SectorSize

\* zbc.h: zbc_dev_sect_laligned(dev, sect): sect << 9 is a multiple of the
\* logical block size.
zbc_dev_sect_laligned(d, sect) == sect_bytes(sect) % d.zbd_lblock_size = 0

\* zbc.h: zbc_dev_sect_paligned(dev, sect): sect << 9 is a multiple of the
\* physical block size.
zbc_dev_sect_paligned(d, sect) == sect_bytes(sect) % d.zbd_pblock_size = 0

\* zbc.h: zbc_iov_count(iov, iovcnt): the sum of the entries' lengths.
RECURSIVE zbc_iov_count(_)
zbc_iov_count(v) ==
    IF v = <<>> THEN 0 ELSE Head(v) + zbc_iov_count(Tail(v))

\* ------------------------------------------------------------------------
\* zbc_iov_convert: the scratch vector of the window
\* [sector_offset, sector_offset + sectors) of the caller's vector.
\* An entry of the result is [idx, off, len]: iov_base = iov[idx].iov_base + off
\* and iov_len = len, both in bytes.
\* ------------------------------------------------------------------------

RECURSIVE iov_convert_loop(_, _, _, _, _, _)
iov_convert_loop(v, i, offset, count, size, out) ==
    IF ~(i <= Len(v) /\ count < size) THEN out
    ELSE LET length == sect_bytes(v[i])
         IN  IF offset >= length
             THEN iov_convert_loop(v, i + 1, offset - length, count, size, out)
             ELSE LET rest == length - offset
                      len  == IF count + rest > size THEN size - count ELSE rest
                  IN  iov_convert_loop(v, i + 1, 0, count + len, size,
                          Append(out, [idx |-> i, off |-> offset, len |-> len]))

\* Faulty variant of zbc_iov_convert: the vector taken from sector_offset to
\* its end, not truncated to the window.
zbc_iov_convert_untruncated(v, sector_offset, sectors) ==
    iov_convert_loop(v, 1, sect_bytes(sector_offset), 0,
                     sect_bytes(zbc_iov_count(v)), <<>>)

zbc_iov_convert(v, sector_offset, sectors) ==
    iov_convert_loop(v, 1, sect_bytes(sector_offset), 0,
                     sect_bytes(sectors), <<>>)

\* ------------------------------------------------------------------------
\* zbc_do_preadv / zbc_do_pwritev: validation, clamping and the loop's steps.
\* ------------------------------------------------------------------------

\* count << 9 > SSIZE_MAX: the shift wraps in size_t, and the wrapped byte
\* count is what is compared.
size_overflow(count) ==
    (count % SizeWrapSectors) > SSIZE_MAX \div SectorSize

\* Faulty variant of rd_aligned: the read validated against the physical block.
rd_aligned_physical(d, count, offset) ==
    zbc_dev_sect_paligned(d, count) /\ zbc_dev_sect_paligned(d, offset)

\* Faulty variant of wr_aligned: the write validated against the logical block.
wr_aligned_logical(d, count, offset) ==
    zbc_dev_sect_laligned(d, count) /\ zbc_dev_sect_laligned(d, offset)

\* The read's alignment test: count and offset against the logical block.
rd_aligned(d, count, offset) ==
    zbc_dev_sect_laligned(d, count) /\ zbc_dev_sect_laligned(d, offset)

\* The write's alignment test: count and offset against the physical block.
wr_aligned(d, count, offset) ==
    zbc_dev_sect_paligned(d, count) /\ zbc_dev_sect_paligned(d, offset)

\* Faulty variant of clamp_count: the request is not clamped to the capacity.
clamp_count_none(d, count, offset) == count

\* if ((offset + count) > zbd_sectors) count = zbd_sectors - offset;
\* For offset > zbd_sectors the unsigned difference wraps to a non-zero
\* value; the negative number stands for it (it is only tested against 0).
clamp_count(d, count, offset) ==
    IF offset + count > d.zbd_sectors THEN d.zbd_sectors - offset ELSE count

\* if (!count || offset >= zbd_sectors) return 0;
nothing_to_do(d, count, offset) == count = 0 \/ offset >= d.zbd_sectors

\* The window of one round of the read loop.
rd_iov_count(count, rd_iov_offset, max_count) ==
    IF count - rd_iov_offset > max_count THEN max_count
    ELSE count - rd_iov_offset

\* The window of one round of the write loop.
wr_iov_count(count, wr_iov_offset, max_count) ==
    IF count - wr_iov_offset > max_count THEN max_count
    ELSE count - wr_iov_offset

\* Faulty variant of rd_fail: the backend's value returned as it is, zero included.
rd_fail_raw(r) == r

\* Faulty variant of wr_fail: every failure reported as -EIO.
wr_fail_eio(r) == -EIO

\* Faulty variant of rd_advance: the cursor advanced by the window asked for.
rd_advance_window(cursor, r, window) == cursor + window

\* Faulty variant of wr_advance: the cursor advanced by the window asked for.
wr_advance_window(cursor, r, window) == cursor + window

\* return ret ? ret : -EIO;  (read loop, ret <= 0)
rd_fail(r) == IF r # 0 THEN r ELSE -EIO

\* return ret ? ret : -EIO;  (write loop, ret <= 0)
wr_fail(r) == IF r # 0 THEN r ELSE -EIO

\* offset += ret; rd_iov_offset += ret;
rd_advance(cursor, r, window) == cursor + r

\* offset += ret; wr_iov_offset += ret;
wr_advance(cursor, r, window) == cursor + r

\* ------------------------------------------------------------------------
\* State.
\* ------------------------------------------------------------------------

VARIABLES
    dev,         \* the open handle's geometry and test-mode flag
    pc,          \* "idle", "loop" (between two backend calls) or "done"
    op,          \* "read" or "write"
    iov,         \* the caller's vector: the entries' lengths in sectors
    req_offset,  \* the caller's sector offset
    count,       \* count of zbc_do_p{read,write}v, after clamping
    offset,      \* offset of zbc_do_p{read,write}v: the next call's sector
    iov_offset,  \* rd_iov_offset / wr_iov_offset: sectors transferred
    calls,       \* the backend calls issued, in order
    ret          \* the value returned to the caller

ioVars == << dev, pc, op, iov, req_offset, count, offset, iov_offset, calls, ret >>

VARIABLES
    have_blkzoned,  \* HAVE_LINUX_BLKZONED_H of the build
    open_pc,        \* "idle" or "done"
    open_flags,     \* the ZBC_O_DRV_* bits of flags, as a set of backends
    path_ret,       \* what zbc_realpath returned
    drv_ret,        \* what each backend's zbd_open returns for the path
    probes,         \* the zbd_open calls made, in order: [drv, ret]
    open_ret,       \* what zbc_open returned
    pdev            \* *pdev: whether it was set, and the handle's zbd_drv

openVars == << have_blkzoned, open_pc, open_flags, path_ret, drv_ret, probes,
               open_ret, pdev >>

VARIABLES
    iz,   \* zbc_device_is_zoned: the call's inputs, backend calls and result
    hd,   \* a device handle through its life: open, operations, close
    rz,   \* zbc_report_zones / zbc_list_zones: inputs, backend rounds, result
    zac,  \* one call into the ATA backend: inputs, commands sent, result
    mp    \* one zbc_map_iov call: arguments, entries written, result

extVars == << iz, hd, rz, zac, mp >>

vars == << ioVars, openVars, extVars >>

\* ------------------------------------------------------------------------
\* The splitter's inputs.
\* ------------------------------------------------------------------------

IovLens == 0 .. MaxLen

Iovs == UNION { [1 .. n -> IovLens] : n \in 0 .. MaxIov }

Offsets(d) == 0 .. d.zbd_sectors + 1

\* A backend's errors.
BackendErrors == { -EIO, -ENOMEM }

\* What a backend call asked for `window` sectors returns: the sectors
\* transferred (possibly short), zero, or an error.
BackendRets(window) == (0 .. window) \cup BackendErrors

IOStart ==
    /\ dev \in Devices
    /\ pc = "idle"
    /\ op = "none"
    /\ iov = <<>>
    /\ req_offset = 0
    /\ count = 0
    /\ offset = 0
    /\ iov_offset = 0
    /\ calls = <<>>
    /\ ret = 0

\* The call returns r before any backend call.
io_return(o, v, off, c, r) ==
    /\ pc' = "done"
    /\ op' = o
    /\ iov' = v
    /\ req_offset' = off
    /\ count' = c
    /\ offset' = off
    /\ iov_offset' = 0
    /\ ret' = r
    /\ UNCHANGED << dev, calls >>

\* The call enters its loop with c sectors to transfer.
io_enter(o, v, off, c) ==
    /\ pc' = "loop"
    /\ op' = o
    /\ iov' = v
    /\ req_offset' = off
    /\ count' = c
    /\ offset' = off
    /\ iov_offset' = 0
    /\ UNCHANGED << dev, calls, ret >>

\* zbc_preadv and zbc_do_preadv up to the loop. The code's branch for test
\* mode with count = 0 after the checks is never reached: test mode with
\* count = 0 has returned -EINVAL before it.
zbc_preadv ==
    /\ pc = "idle"
    /\ \E v \in Iovs, off \in Offsets(dev) :
         LET total == zbc_iov_count(v)
             c     == clamp_count(dev, total, off)
         IN  IF Len(v) <= 0 THEN io_return("read", v, off, total, -EINVAL)
             ELSE IF size_overflow(total)
                  THEN io_return("read", v, off, total, -EINVAL)
             ELSE IF zbc_test_mode(dev)
                  THEN IF total = 0
                       THEN io_return("read", v, off, total, -EINVAL)
                       ELSE io_enter("read", v, off, total)
             ELSE IF ~rd_aligned(dev, total, off)
                  THEN io_return("read", v, off, total, -EINVAL)
             ELSE IF nothing_to_do(dev, c, off)
                  THEN io_return("read", v, off, c, 0)
             ELSE io_enter("read", v, off, c)
    /\ UNCHANGED << openVars, extVars >>

\* zbc_pwritev and zbc_do_pwritev up to the loop (the same unreachable
\* branch for test mode with count = 0 is left out).
zbc_pwritev ==
    /\ pc = "idle"
    /\ \E v \in Iovs, off \in Offsets(dev) :
         LET total == zbc_iov_count(v)
             c     == clamp_count(dev, total, off)
         IN  IF Len(v) <= 0 THEN io_return("write", v, off, total, -EINVAL)
             ELSE IF size_overflow(total)
                  THEN io_return("write", v, off, total, -EINVAL)
             ELSE IF zbc_test_mode(dev)
                  THEN IF total = 0
                       THEN io_return("write", v, off, total, -EINVAL)
                       ELSE io_enter("write", v, off, total)
             ELSE IF ~wr_aligned(dev, total, off)
                  THEN io_return("write", v, off, total, -EINVAL)
             ELSE IF nothing_to_do(dev, c, off)
                  THEN io_return("write", v, off, c, 0)
             ELSE io_enter("write", v, off, c)
    /\ UNCHANGED << openVars, extVars >>

\* One round of a loop: the window, the scratch vector, the backend call r,
\* and either the abort or the advance (and the return of count at the end).
io_round(window, r, failure, cursor) ==
    /\ calls' = Append(calls,
                  [ offset  |-> offset,
                    sectors |-> window,
                    at      |-> iov_offset,
                    vec     |-> zbc_iov_convert(iov, iov_offset, window),
                    ret     |-> r ])
    /\ IF r <= 0
       THEN /\ pc' = "done"
            /\ ret' = failure
            /\ UNCHANGED << offset, iov_offset >>
       ELSE /\ offset' = offset + (cursor - iov_offset)
            /\ iov_offset' = cursor
            /\ IF cursor < count
               THEN pc' = "loop" /\ UNCHANGED ret
               ELSE pc' = "done" /\ ret' = count
    /\ UNCHANGED << dev, op, iov, req_offset, count >>

\* One round of zbc_do_preadv's loop.
zbc_do_preadv_round ==
    /\ pc = "loop"
    /\ op = "read"
    /\ LET window == rd_iov_count(count, iov_offset, dev.zbd_max_rw_sectors)
       IN  \E r \in BackendRets(window) :
             io_round(window, r, rd_fail(r), rd_advance(iov_offset, r, window))
    /\ UNCHANGED << openVars, extVars >>

\* One round of zbc_do_pwritev's loop.
zbc_do_pwritev_round ==
    /\ pc = "loop"
    /\ op = "write"
    /\ LET window == wr_iov_count(count, iov_offset, dev.zbd_max_rw_sectors)
       IN  \E r \in BackendRets(window) :
             io_round(window, r, wr_fail(r), wr_advance(iov_offset, r, window))
    /\ UNCHANGED << openVars, extVars >>

\* ------------------------------------------------------------------------
\* zbc_open: the backend dispatcher.
\* ------------------------------------------------------------------------

\* *pdev as the caller left it: not set by zbc_open.
NoHandle == [ set |-> FALSE, zbd_drv |-> "none" ]

\* Faulty variant of zbc_drv: the SCSI backend listed before the block one.
zbc_drv_scsi_first == << "SCSI", "BLOCK", "ATA", "FAKE" >>

\* The backend drivers, in the order of the zbc_drv[] array.
zbc_drv == << "BLOCK", "SCSI", "ATA", "FAKE" >>

\* zbc.h: ZBC_O_DRV_MASK, the ZBC_O_DRV_* bits of the four backends; a
\* driver's flag is modelled by the driver's name.
ZBC_O_DRV_MASK == { "BLOCK", "SCSI", "ATA", "FAKE" }

\* Faulty variant of allowed_drv: the restrict mask of flags is ignored.
allowed_drv_unmasked(flags, blkzoned) ==
    IF blkzoned THEN ZBC_O_DRV_MASK ELSE ZBC_O_DRV_MASK \ { "BLOCK" }

\* allowed_drv of zbc_open: the restrict mask of flags, all backends when it
\* is empty, without the block backend when <linux/blkzoned.h> is missing.
allowed_drv(flags, blkzoned) ==
    LET masked == flags \cap ZBC_O_DRV_MASK
        all    == IF masked = {} THEN ZBC_O_DRV_MASK ELSE masked
    IN  IF blkzoned THEN all ELSE all \ { "BLOCK" }

\* Faulty variant of probe_switch: every error makes the loop try the next
\* backend.
probe_switch_lenient(r) == IF r = 0 THEN "accept" ELSE "continue"

\* switch (ret) of the probing loop.
probe_switch(r) ==
    IF r = 0 THEN "accept"
    ELSE IF r = -ENXIO THEN "continue"
    ELSE "out"

RECURSIVE zbc_open_loop(_, _, _, _, _)
\* The probing loop from zbc_drv[i] on, ret being r and `log` the zbd_open
\* calls made so far; res gives each backend's zbd_open result. The result is
\* the value returned, the calls made and *pdev.
zbc_open_loop(i, r, log, allowed, res) ==
    IF i > Len(zbc_drv) THEN [ ret |-> r, probes |-> log, pdev |-> NoHandle ]
    ELSE IF zbc_drv[i] \notin allowed
         THEN zbc_open_loop(i + 1, r, log, allowed, res)
    ELSE LET rr   == res[zbc_drv[i]]
             log2 == Append(log, [ drv |-> zbc_drv[i], ret |-> rr ])
         IN  CASE probe_switch(rr) = "accept" ->
                    [ ret |-> rr, probes |-> log2,
                      pdev |-> [ set |-> TRUE, zbd_drv |-> zbc_drv[i] ] ]
               [] probe_switch(rr) = "continue" ->
                    zbc_open_loop(i + 1, rr, log2, allowed, res)
               [] OTHER ->
                    [ ret |-> rr, probes |-> log2, pdev |-> NoHandle ]

\* What zbc_realpath returns: 0, or -errno of realpath(3).
PathRets == { 0, -ENOENT, -EACCES }

\* What a backend's zbd_open returns: 0, -ENXIO (not my device) or an error.
OpenRets == { 0, -ENXIO, -EACCES, -ENOMEM }

\* zbc_open(filename, flags, &dev) on a fresh *pdev.
zbc_open ==
    /\ open_pc = "idle"
    /\ \E flags \in SUBSET ZBC_O_DRV_MASK, pr \in PathRets,
          res \in [ ZBC_O_DRV_MASK -> OpenRets ] :
         LET out == IF pr # 0
                    THEN [ ret |-> pr, probes |-> << >>, pdev |-> NoHandle ]
                    ELSE zbc_open_loop(1, -ENODEV, << >>,
                                       allowed_drv(flags, have_blkzoned), res)
         IN  /\ open_pc' = "done"
             /\ open_flags' = flags
             /\ path_ret' = pr
             /\ drv_ret' = res
             /\ probes' = out.probes
             /\ open_ret' = out.ret
             /\ pdev' = out.pdev
    /\ UNCHANGED have_blkzoned
    /\ UNCHANGED << ioVars, extVars >>

\* No zbc_device_is_zoned call made.
IzIdle == [ pc |-> "idle" ]

\* No handle yet.
HdIdle == [ pc |-> "idle" ]

\* No zbc_report_zones call made.
RzIdle == [ pc |-> "idle" ]

\* No call into the ATA backend made.
ZacIdle == [ pc |-> "idle" ]

\* No zbc_map_iov call made.
MpIdle == [ pc |-> "idle" ]

\* The state of the parts a specification leaves alone.
ExtIdle ==
    iz = IzIdle /\ hd = HdIdle /\ rz = RzIdle /\ zac = ZacIdle /\ mp = MpIdle

OpenStart ==
    /\ have_blkzoned \in BOOLEAN
    /\ open_pc = "idle"
    /\ open_flags = {}
    /\ path_ret = 0
    /\ drv_ret = << >>
    /\ probes = << >>
    /\ open_ret = 0
    /\ pdev = NoHandle

\* No handle: the splitter's state while the dispatcher is studied.
IOIdle ==
    /\ dev = "none"
    /\ pc = "idle"
    /\ op = "none"
    /\ iov = <<>>
    /\ req_offset = 0
    /\ count = 0
    /\ offset = 0
    /\ iov_offset = 0
    /\ calls = <<>>
    /\ ret = 0

NextOpen == zbc_open

\* The dispatcher: one zbc_open call.
InitOpen == OpenStart /\ IOIdle /\ ExtIdle

SpecOpen == InitOpen /\ [][NextOpen]_vars

\* No zbc_open call: the dispatcher's state while the splitter is studied.
OpenIdle ==
    /\ have_blkzoned = TRUE
    /\ open_pc = "idle"
    /\ open_flags = {}
    /\ path_ret = 0
    /\ drv_ret = << >>
    /\ probes = << >>
    /\ open_ret = 0
    /\ pdev = NoHandle

NextIO == zbc_preadv \/ zbc_pwritev \/ zbc_do_preadv_round \/ zbc_do_pwritev_round

\* The splitter: one handle, one vectored read or write.
InitIO == IOStart /\ OpenIdle /\ ExtIdle

SpecIO == InitIO /\ [][NextIO]_vars

\* The handles of devices of 512-byte blocks: every request is aligned and
\* reaches the loop unless its count is clamped to nothing.
InitIOLive == InitIO /\ dev.zbd_pblock_size = SectorSize

\* The splitter run by a thread that goes on while it has a step to take:
\* the call is entered and every backend call returns.
SpecIOLive == InitIOLive /\ [][NextIO]_vars /\ WF_vars(NextIO)

\* ------------------------------------------------------------------------
\* Properties of the splitter (checked under SpecIO).
\* ------------------------------------------------------------------------

\* The sectors the caller's vector holds.
Total == zbc_iov_count(iov)

RECURSIVE SumRets(_, _)
\* The sectors the first k backend calls transferred.
SumRets(cs, k) == IF k = 0 THEN 0 ELSE cs[k].ret + SumRets(cs, k - 1)

RECURSIVE SumLens(_, _)
\* The sectors of the first k entries of a vector.
SumLens(v, k) == IF k = 0 THEN 0 ELSE v[k] + SumLens(v, k - 1)

RECURSIVE VecBytes(_)
\* The bytes a scratch vector spans.
VecBytes(vec) == IF vec = <<>> THEN 0 ELSE Head(vec).len + VecBytes(Tail(vec))

\* Where a scratch entry starts in the concatenation of the caller's vector.
AbsByte(e) == SumLens(iov, e.idx - 1) * SectorSize + e.off

\* A scratch vector is one gap-free byte range of the concatenation of the
\* caller's vector, starting at byte `from`, every entry inside its input entry.
Contiguous(vec, from) ==
    /\ vec # <<>>
    /\ AbsByte(vec[1]) = from
    /\ \A j \in 1 .. Len(vec) :
         /\ vec[j].len > 0
         /\ vec[j].off + vec[j].len <= iov[vec[j].idx] * SectorSize
         /\ j > 1 => AbsByte(vec[j]) = AbsByte(vec[j - 1]) + vec[j - 1].len

AllPositive == \A k \in 1 .. Len(calls) : calls[k].ret > 0

Failed == calls # <<>> /\ calls[Len(calls)].ret <= 0

NonTest == ~zbc_test_mode(dev)

\* The request lies inside the device: nothing is clamped.
Inside == req_offset + Total <= dev.zbd_sectors

\* C1: splitter totality. While every backend call so far returned a positive
\* sector count, call k's scratch vector is the gap-free byte range of the
\* concatenated input that starts 512 x (sectors transferred by the calls
\* before it) bytes in and spans the window asked for; and when the operation
\* returns, the transferred counts sum to exactly total, which is returned.
C1_SplitterTotality ==
    (pc # "idle" /\ AllPositive /\ (NonTest => Inside)) =>
        /\ \A k \in 1 .. Len(calls) :
             /\ calls[k].at = SumRets(calls, k - 1)
             /\ Contiguous(calls[k].vec, SectorSize * SumRets(calls, k - 1))
             /\ VecBytes(calls[k].vec) = SectorSize * calls[k].sectors
             /\ calls[k].ret <= calls[k].sectors
        /\ (pc = "done" /\ calls # <<>>) =>
             /\ SumRets(calls, Len(calls)) = Total
             /\ ret = Total

\* A multi-call transfer with a short backend return, over a two-entry
\* vector, completed.
C1_Witness ==
    /\ pc = "done" /\ AllPositive /\ Len(calls) >= 3 /\ Len(iov) = 2
    /\ \E k \in 1 .. Len(calls) : calls[k].ret < calls[k].sectors
    /\ \E k \in 1 .. Len(calls) : Len(calls[k].vec) = 2
    /\ ret = Total

\* The alignment an operation's backend calls need.
CallAligned(c) ==
    IF op = "read" THEN zbc_dev_sect_laligned(dev, c.offset)
    ELSE zbc_dev_sect_paligned(dev, c.offset)

\* C2: splitter alignment. On a non-test device every backend call asks for
\* at most max_rw_sectors sectors at an offset aligned to the logical block
\* (reads) or the physical block (writes), the calls after a short transfer
\* included.
C2_SplitterAlignment ==
    NonTest =>
        \A k \in 1 .. Len(calls) :
            /\ calls[k].sectors <= dev.zbd_max_rw_sectors
            /\ CallAligned(calls[k])

\* C3 as claimed: once a chunk was transferred, a later failing backend call
\* makes the operation return the non-negative amount transferred so far.
C3_PartialReturned ==
    (pc = "done" /\ Failed /\ Len(calls) >= 2) =>
        (ret >= 0 /\ ret = iov_offset)

\* C3 as amended: a short (positive) backend return is not an error, the loop
\* goes on and a run of positive returns ends with count returned; but once a
\* backend call fails or returns zero after chunks were transferred, the
\* operation returns the negative error and not the amount transferred.
C3_PartialIsError ==
    /\ (pc = "done" /\ calls # <<>> /\ AllPositive) => ret = count
    /\ (pc = "done" /\ Failed /\ Len(calls) >= 2) =>
          /\ ret < 0
          /\ ret = (IF calls[Len(calls)].ret # 0
                    THEN calls[Len(calls)].ret ELSE -EIO)

\* Sectors were transferred, then the backend returned zero.
C3_Witness ==
    /\ pc = "done" /\ Len(calls) >= 2 /\ iov_offset > 0
    /\ calls[Len(calls)].ret = 0
    /\ ret = -EIO

\* The request passes the operation's alignment test.
Aligned ==
    IF op = "read" THEN rd_aligned(dev, Total, req_offset)
    ELSE wr_aligned(dev, Total, req_offset)

\* C4: clamping at the end of the device. On a non-test device, for an
\* aligned request of a non-empty vector: no backend call reaches past the
\* capacity; a request that starts inside and ends past the capacity, when
\* its backend calls succeed, transfers and returns capacity - sector_offset;
\* a request of zero sectors or starting at or past the capacity returns 0
\* without any backend call.
C4_Clamp ==
    (pc # "idle" /\ NonTest /\ iov # <<>> /\ Aligned) =>
        /\ \A k \in 1 .. Len(calls) :
              calls[k].offset + calls[k].sectors <= dev.zbd_sectors
        /\ (req_offset < dev.zbd_sectors
              /\ req_offset + Total > dev.zbd_sectors) =>
              /\ count = dev.zbd_sectors - req_offset
              /\ (pc = "done" /\ AllPositive) =>
                    /\ ret = dev.zbd_sectors - req_offset
                    /\ SumRets(calls, Len(calls)) = dev.zbd_sectors - req_offset
        /\ (Total = 0 \/ req_offset >= dev.zbd_sectors) =>
              (pc = "done" /\ ret = 0 /\ calls = <<>>)

\* A request straddling the end of the device returned the clamped count.
C4_Witness ==
    /\ pc = "done" /\ NonTest /\ Aligned /\ AllPositive /\ calls # <<>>
    /\ req_offset < dev.zbd_sectors
    /\ req_offset + Total > dev.zbd_sectors
    /\ ret = dev.zbd_sectors - req_offset
    /\ ret < Total

\* C5: on a non-test device a write whose sector offset or total is not a
\* multiple of the physical block returns -EINVAL and issues no backend call.
C5_MisalignedWrite ==
    (op = "write" /\ NonTest /\ iov # <<>>
       /\ ~(zbc_dev_sect_paligned(dev, Total)
            /\ zbc_dev_sect_paligned(dev, req_offset))) =>
        (pc = "done" /\ ret = -EINVAL /\ calls = <<>>)

\* A write at an odd sector of a device with two-sector physical blocks.
C5_Witness ==
    /\ op = "write" /\ NonTest /\ pc = "done"
    /\ dev.zbd_pblock_size = 2 * SectorSize
    /\ req_offset % 2 = 1 /\ Total = 2
    /\ ret = -EINVAL /\ calls = <<>>

\* The request is aligned to the logical but not to the physical block.
LogicalOnly ==
    /\ zbc_dev_sect_laligned(dev, Total)
    /\ zbc_dev_sect_laligned(dev, req_offset)
    /\ ~(zbc_dev_sect_paligned(dev, Total)
         /\ zbc_dev_sect_paligned(dev, req_offset))

\* The call was rejected by validation.
Rejected == pc = "done" /\ ret = -EINVAL /\ calls = <<>>

\* C6: the alignment checks are asymmetric. On a non-test device whose
\* physical block is larger than its logical block, a request aligned to the
\* logical but not the physical block is accepted as a read (it is clamped
\* and transferred, never rejected with -EINVAL) and rejected as a write.
C6_Asymmetry ==
    (pc # "idle" /\ NonTest /\ iov # <<>> /\ LogicalOnly) =>
        /\ op = "read" => ~Rejected
        /\ op = "read" =>
              (pc = "loop" \/ calls # <<>> \/ ret = 0)
        /\ op = "write" => Rejected

\* A read aligned to the logical block only went to the backend.
C6_Witness ==
    /\ op = "read" /\ NonTest /\ LogicalOnly
    /\ dev.zbd_pblock_size > dev.zbd_lblock_size
    /\ pc = "done" /\ calls # <<>> /\ ret = Total

\* C7: the first backend call that returns zero or a negative value ends
\* the operation: it is the last call issued, a negative value is returned
\* to the caller as it is and zero becomes -EIO.
C7_FirstFailureAborts ==
    \A k \in 1 .. Len(calls) :
        calls[k].ret <= 0 =>
            /\ k = Len(calls)
            /\ pc = "done"
            /\ ret = (IF calls[k].ret < 0 THEN calls[k].ret ELSE -EIO)

\* A write's second backend call failed with an error other than -EIO.
C7_Witness ==
    /\ op = "write" /\ pc = "done" /\ Len(calls) = 2
    /\ calls[2].ret = -ENOMEM
    /\ ret = -ENOMEM

\* ------------------------------------------------------------------------
\* Properties of zbc_open (checked under SpecOpen).
\* ------------------------------------------------------------------------

\* The probing order the dispatcher is specified to follow.
Pos(d) ==
    CASE d = "BLOCK" -> 1 [] d = "SCSI" -> 2 [] d = "ATA" -> 3 [] d = "FAKE" -> 4

\* The backends this call may probe.
Allowed == allowed_drv(open_flags, have_blkzoned)

\* C8: zbc_open probes in the order BLOCK, SCSI, ATA, FAKE and selects the
\* first allowed backend that accepts: on success the handle's backend is the
\* accepting one, every allowed backend before it was probed and returned
\* -ENXIO, the probes were made in the order of the list and no backend after
\* the accepting one was probed.
C8_FirstAcceptingBackend ==
    (open_pc = "done" /\ open_ret = 0) =>
        /\ pdev.set
        /\ probes # << >>
        /\ probes[Len(probes)] = [ drv |-> pdev.zbd_drv, ret |-> 0 ]
        /\ drv_ret[pdev.zbd_drv] = 0
        /\ \A d \in Allowed :
              Pos(d) < Pos(pdev.zbd_drv) =>
                  [ drv |-> d, ret |-> -ENXIO ] \in
                      { probes[k] : k \in 1 .. Len(probes) }
        /\ \A k \in 1 .. Len(probes) :
              /\ Pos(probes[k].drv) <= Pos(pdev.zbd_drv)
              /\ k > 1 => Pos(probes[k - 1].drv) < Pos(probes[k].drv)

\* The FAKE backend accepted after the three others declined.
C8_Witness ==
    /\ open_pc = "done" /\ open_ret = 0
    /\ pdev.set /\ pdev.zbd_drv = "FAKE"
    /\ Len(probes) = 4
    /\ drv_ret["ATA"] = -ENXIO

\* C9: a backend returning -ENXIO makes the next allowed backend be tried;
\* any other error ends the probing: it is the last probe, it is the value
\* zbc_open returns, and *pdev is not set.
C9_NotMyDeviceTriesNext ==
    open_pc = "done" =>
        \A k \in 1 .. Len(probes) :
            /\ (probes[k].ret = -ENXIO
                  /\ \E d \in Allowed : Pos(d) > Pos(probes[k].drv)) =>
                  /\ k < Len(probes)
                  /\ probes[k + 1].drv \in Allowed
                  /\ Pos(probes[k + 1].drv) > Pos(probes[k].drv)
                  /\ \A d \in Allowed :
                        Pos(d) > Pos(probes[k].drv) =>
                            Pos(probes[k + 1].drv) <= Pos(d)
            /\ probes[k].ret \notin { 0, -ENXIO } =>
                  /\ k = Len(probes)
                  /\ open_ret = probes[k].ret
                  /\ pdev = NoHandle

\* The block backend declined, the SCSI backend failed, the backends after
\* it (one of which would have accepted) were not probed.
C9_Witness ==
    /\ open_pc = "done" /\ Len(probes) = 2
    /\ probes[1] = [ drv |-> "BLOCK", ret |-> -ENXIO ]
    /\ probes[2] = [ drv |-> "SCSI", ret |-> -EACCES ]
    /\ drv_ret["ATA"] = 0
    /\ open_ret = -EACCES /\ pdev = NoHandle

\* C10: when path resolution fails, or when every allowed backend declines
\* with -ENXIO, zbc_open returns -ENODEV and does not set *pdev.
C10_NoDevice ==
    (open_pc = "done"
       /\ (path_ret # 0 \/ \A d \in Allowed : drv_ret[d] = -ENXIO)) =>
        (open_ret = -ENODEV /\ ~pdev.set)

\* The backends of the ZBC_O_DRV_* restrict mask, the block backend left out
\* on a build without <linux/blkzoned.h>.
Permitted ==
    (IF open_flags = {} THEN { "BLOCK", "SCSI", "ATA", "FAKE" } ELSE open_flags)
        \ (IF have_blkzoned THEN {} ELSE { "BLOCK" })

\* C11: the restrict mask limits probing. A backend outside a non-empty mask
\* is never probed, nor is the block backend on a build without the kernel
\* interface; with an empty mask every other backend is probed once the
\* backends before it have declined.
C11_RestrictMask ==
    open_pc = "done" =>
        /\ \A k \in 1 .. Len(probes) :
              /\ open_flags # {} => probes[k].drv \in open_flags
              /\ ~have_blkzoned => probes[k].drv # "BLOCK"
        /\ (open_flags = {} /\ path_ret = 0) =>
              \A d \in Permitted :
                  (\A e \in Permitted : Pos(e) < Pos(d) => drv_ret[e] = -ENXIO)
                      => \E k \in 1 .. Len(probes) : probes[k].drv = d

\* With the mask {ATA, FAKE} the SCSI backend, which would have accepted, was
\* not probed; the ATA backend declined and the emulator accepted.
C11_Witness ==
    /\ open_pc = "done" /\ open_flags = { "ATA", "FAKE" }
    /\ drv_ret["SCSI"] = 0
    /\ Len(probes) = 2 /\ probes[1].drv = "ATA" /\ probes[2].drv = "FAKE"
    /\ open_ret = 0

---------------------------------------------------------------------------
\* zbc_device_is_zoned

\* Faulty variant of is_zoned_verdict: the emulator always counts.
is_zoned_verdict_any(drv, fake) == 1

\* The test on the accepting backend: the emulator counts as a zoned device
\* only when the caller passed fake = true.
is_zoned_verdict(drv, fake) ==
    IF drv = "FAKE" /\ ~fake THEN 0 ELSE 1

RECURSIVE is_zoned_loop(_, _, _, _)
\* The probing loop of zbc_device_is_zoned from zbc_drv[i] on, ret being r and
\* `log` the zbd_open calls made so far. Every backend of the list is tried:
\* there is no restrict mask here. `out` tells that the loop left by goto out.
is_zoned_loop(i, r, log, res) ==
    IF i > Len(zbc_drv)
    THEN [ ret |-> r, probes |-> log, drv |-> "none", out |-> FALSE ]
    ELSE LET rr   == res[zbc_drv[i]]
             log2 == Append(log, [ drv |-> zbc_drv[i], ret |-> rr ])
         IN  IF rr = 0
             THEN [ ret |-> rr, probes |-> log2, drv |-> zbc_drv[i],
                    out |-> FALSE ]
             ELSE IF rr # -ENXIO
             THEN [ ret |-> rr, probes |-> log2, drv |-> "none", out |-> TRUE ]
             ELSE is_zoned_loop(i + 1, rr, log2, res)

\* Faulty variant of is_zoned_finish: the handle is closed only when the
\* answer is yes.
is_zoned_finish_leak(l, fake, info) ==
    IF l.out
    THEN [ ret |-> l.ret, closes |-> << >>, info |-> FALSE ]
    ELSE IF l.drv # "none"
    THEN [ ret    |-> is_zoned_verdict(l.drv, fake),
           closes |-> IF is_zoned_verdict(l.drv, fake) = 1
                      THEN << l.drv >> ELSE << >>,
           info   |-> info /\ is_zoned_verdict(l.drv, fake) = 1 ]
    ELSE [ ret    |-> IF l.ret # -EPERM /\ l.ret # -EACCES THEN 0 ELSE l.ret,
           closes |-> << >>, info |-> FALSE ]

\* What follows the loop: verdict and close of the handle a backend opened,
\* or the answer "no" when every backend declined.
is_zoned_finish(l, fake, info) ==
    IF l.out
    THEN [ ret |-> l.ret, closes |-> << >>, info |-> FALSE ]
    ELSE IF l.drv # "none"
    THEN [ ret    |-> is_zoned_verdict(l.drv, fake),
           closes |-> << l.drv >>,
           info   |-> info /\ is_zoned_verdict(l.drv, fake) = 1 ]
    ELSE [ ret    |-> IF l.ret # -EPERM /\ l.ret # -EACCES THEN 0 ELSE l.ret,
           closes |-> << >>, info |-> FALSE ]

\* zbc_device_is_zoned(filename, fake, info): info tells whether the caller
\* passed a non-NULL info pointer.
zbc_device_is_zoned ==
    /\ iz.pc = "idle"
    /\ \E fake \in BOOLEAN, info \in BOOLEAN, pr \in PathRets,
          res \in [ ZBC_O_DRV_MASK -> OpenRets ] :
         LET l == is_zoned_loop(1, pr, << >>, res)
             f == is_zoned_finish(l, fake, info)
         IN  iz' = IF pr # 0
                   THEN [ pc |-> "done", fake |-> fake, path_ret |-> pr,
                          drv_ret |-> res, probes |-> << >>,
                          closes |-> << >>, info |-> FALSE, ret |-> pr ]
                   ELSE [ pc |-> "done", fake |-> fake, path_ret |-> pr,
                          drv_ret |-> res, probes |-> l.probes,
                          closes |-> f.closes, info |-> f.info,
                          ret |-> f.ret ]
    /\ UNCHANGED << ioVars, openVars, hd, rz, zac, mp >>

NextIsZoned == zbc_device_is_zoned

InitIsZoned ==
    /\ iz = IzIdle
    /\ IOIdle
    /\ OpenIdle
    /\ hd = HdIdle
    /\ rz = RzIdle
    /\ zac = ZacIdle
    /\ mp = MpIdle

\* The device test: one zbc_device_is_zoned call.
SpecIsZoned == InitIsZoned /\ [][NextIsZoned]_vars

\* The backends that do not decline the device.
Answering == { d \in ZBC_O_DRV_MASK : iz.drv_ret[d] # -ENXIO }

\* The first backend of the list that does not decline.
FirstAnswer == CHOOSE d \in Answering : \A e \in Answering : Pos(d) <= Pos(e)

\* A backend accepts the device: the first that does not decline returns 0.
Accepts == iz.path_ret = 0 /\ Answering # {} /\ iz.drv_ret[FirstAnswer] = 0

\* The accepting backend is the emulator and the caller passed fake = false.
FakeRejected == Accepts /\ FirstAnswer = "FAKE" /\ ~iz.fake

\* zbc_open with an empty restrict mask, on a build with the block backend
\* and on the same answers of realpath and of the backends.
OpenOutcome ==
    IF iz.path_ret # 0
    THEN [ ret |-> iz.path_ret, probes |-> << >>, pdev |-> NoHandle ]
    ELSE zbc_open_loop(1, -ENODEV, << >>, ZBC_O_DRV_MASK, iz.drv_ret)

---------------------------------------------------------------------------
\* zbc_report_zones and zbc_list_zones

\* Sectors per zone of the reported devices; the last zone may be shorter.
ZoneSectors == 2

\* Zone conditions told apart by the reporting options of the model.
ZoneConds == { "EMPTY", "FULL" }

\* Number of zones of a device of CapUnits * 2 sectors.
NumZones == (CapUnits * 2 + ZoneSectors - 1) \div ZoneSectors

\* Zone i of such a device under the conditions cs.
ZoneAt(i, cs) ==
    LET start == (i - 1) * ZoneSectors
        rest  == CapUnits * 2 - start
    IN  [ zbz_start  |-> start,
          zbz_length |-> IF rest < ZoneSectors THEN rest ELSE ZoneSectors,
          zbz_cond   |-> cs[i] ]

\* The handles zones are reported from: the zones tile [0, zbd_sectors).
ZonedDevices ==
    { [ zbd_sectors |-> CapUnits * 2,
        test_mode   |-> t,
        zones       |-> [ i \in 1 .. NumZones |-> ZoneAt(i, cs) ] ] :
      t \in BOOLEAN, cs \in [ 1 .. NumZones -> ZoneConds ] }

\* enum zbc_reporting_options: a filter and the ZBC_RO_PARTIAL bit.
ReportingOptions == [ opt : { "ALL", "FULL" }, partial : BOOLEAN ]

\* zbc.h: zbc_ro_mask(ro), the option without the ZBC_RO_PARTIAL bit.
zbc_ro_mask(ro) == [ opt |-> ro.opt, partial |-> FALSE ]

\* zbc_ro_mask(ro) | ZBC_RO_PARTIAL
ro_partial(ro) == [ opt |-> zbc_ro_mask(ro).opt, partial |-> TRUE ]

\* Faulty variant of ro_count_query: the caller's option is not masked.
ro_count_query_raw(ro) == ro

\* The option of the count query: zbc_ro_mask(ro).
ro_count_query(ro) == zbc_ro_mask(ro)

\* The zones a backend reports from `sector` on under the filter opt: those
\* ending after sector, the zone that holds sector being the first.
RECURSIVE backend_zones(_, _, _, _)
backend_zones(d, sector, opt, i) ==
    IF i > Len(d.zones) THEN << >>
    ELSE LET z    == d.zones[i]
             rest == backend_zones(d, sector, opt, i + 1)
         IN  IF z.zbz_start + z.zbz_length > sector
                /\ (opt = "ALL" \/ z.zbz_cond = opt)
             THEN << z >> \o rest
             ELSE rest

\* The first n elements of zs, all of them when there are fewer.
FirstZones(zs, n) == SubSeq(zs, 1, IF n < Len(zs) THEN n ELSE Len(zs))

\* One zbd_report_zones call with a buffer of n zones, the backend filling
\* in at most lim zones per call.
backend_report(d, sector, ro, n, lim) ==
    FirstZones(backend_zones(d, sector, ro.opt, 1), IF n < lim THEN n ELSE lim)

\* The way a backend misbehaves, "honest" for a backend that has no mode.
BackendMode(be) == IF "mode" \in DOMAIN be THEN be.mode ELSE "honest"

\* What a backend fills in for one zbd_report_zones call with a buffer of n
\* zones. An honest backend reports the zones from sector on. A
\* "zero_length" backend reports zones of no length that start at sector. A
\* "stuck" backend reports the zones from the start of the device whatever
\* the sector. None fills in more than the n zones of the buffer.
backend_answer(d, sector, ro, n, be) ==
    LET k == IF n < be.lim THEN n ELSE be.lim
    IN  CASE BackendMode(be) = "honest" ->
               backend_report(d, sector, ro, n, be.lim)
          [] BackendMode(be) = "zero_length" ->
               [ i \in 1 .. k |-> [ zbz_start |-> sector, zbz_length |-> 0,
                                    zbz_cond |-> "EMPTY" ] ]
          [] BackendMode(be) = "stuck" ->
               FirstZones(backend_zones(d, 0, "ALL", 1), k)

\* Faulty variant of rz_more: a round is made with the buffer full.
rz_more_full(nz, nr) == nz <= nr

\* while (nz < *nr_zones)
rz_more(nz, nr) == nz < nr

\* Faulty variant of rz_ask: the whole buffer size is asked for every round.
rz_ask_all(nr, nz) == nr

\* n = *nr_zones - nz
rz_ask(nr, nz) == nr - nz

\* Faulty variant of rz_last_sector: the start of the last zone.
rz_last_sector_start(z) == z.zbz_start

\* last_sector = zones[nz - 1].zbz_start + zones[nz - 1].zbz_length
rz_last_sector(z) == z.zbz_start + z.zbz_length

\* Faulty variant of rz_at_end: the end of the device is never noticed.
rz_at_end_never(last_sector, d) == FALSE

\* Faulty variant of rz_at_end: every round is taken to be the last.
rz_at_end_always(last_sector, d) == TRUE

\* last_sector >= dev->zbd_info.zbd_sectors
rz_at_end(last_sector, d) == last_sector >= d.zbd_sectors

RECURSIVE report_loop(_, _, _, _, _, _, _, _)
\* while (nz < *nr_zones) of zbc_report_zones. be is the backend: it fills in
\* at most be.lim zones per call and fails call number be.err with -EIO
\* (be.err = 0: no call fails). A call is logged with its start sector, its
\* option, the index of zones[] its buffer starts at, the count asked for,
\* its return value and the zones it filled in.
report_loop(d, sector, ro, nr, nz, out, log, be) ==
    IF ~rz_more(nz, nr)
    THEN [ ret |-> 0, nr_zones |-> nz, out |-> out, calls |-> log ]
    ELSE LET n    == rz_ask(nr, nz)
             fail == be.err = Len(log) + 1
             zs   == IF fail THEN << >>
                     ELSE backend_answer(d, sector, ro_partial(ro), n, be)
             call == [ sector |-> sector, ro |-> ro_partial(ro), at |-> nz,
                       asked |-> n, ret |-> IF fail THEN -EIO ELSE 0,
                       zones |-> zs ]
             log2  == Append(log, call)
             nz2  == nz + Len(zs)
             out2 == out \o zs
         IN  IF fail
             THEN [ ret |-> -EIO, nr_zones |-> nr, out |-> out, calls |-> log2 ]
             ELSE IF Len(zs) = 0
             THEN [ ret |-> 0, nr_zones |-> nz, out |-> out, calls |-> log2 ]
             ELSE IF rz_at_end(rz_last_sector(zs[Len(zs)]), d)
             THEN [ ret |-> 0, nr_zones |-> nz2, out |-> out2, calls |-> log2 ]
             ELSE report_loop(d, rz_last_sector(zs[Len(zs)]), ro, nr, nz2,
                              out2, log2, be)

\* if (!zones): the count query, one call with a NULL buffer (at = -1) and
\* *nr_zones = 0; the backend stores the number of zones it would report.
report_count(d, sector, ro, be) ==
    LET fail == be.err = 1
        n    == Len(backend_zones(d, sector, ro_count_query(ro).opt, 1))
        call == [ sector |-> sector, ro |-> ro_count_query(ro), at |-> -1,
                  asked |-> 0, ret |-> IF fail THEN -EIO ELSE 0,
                  zones |-> << >> ]
    IN  [ ret      |-> IF fail THEN -EIO ELSE 0,
          nr_zones |-> IF fail THEN 0 ELSE n,
          out      |-> << >>,
          calls    |-> << call >> ]

\* Faulty variant of rz_past_end: the sector equal to the capacity is taken
\* to be on the device.
rz_past_end_strict(d, sector) ==
    ~zbc_test_mode(d) /\ sector > d.zbd_sectors

\* if (!zbc_test_mode(dev) && sector >= dev->zbd_info.zbd_sectors): the
\* report starts at or after the end of the device.
rz_past_end(d, sector) ==
    ~zbc_test_mode(d) /\ sector >= d.zbd_sectors

\* zbc_report_zones(dev, sector, ro, zones, nr_zones): buf tells whether zones
\* is non-NULL, nr is *nr_zones on entry.
report_zones(d, sector, ro, buf, nr, be) ==
    IF rz_past_end(d, sector)
    THEN [ ret |-> 0, nr_zones |-> 0, out |-> << >>, calls |-> << >> ]
    ELSE IF ~buf
    THEN report_count(d, sector, ro, be)
    ELSE report_loop(d, sector, ro, nr, 0, << >>, << >>, be)

\* zbc.h: zbc_report_nr_zones(dev, sector, ro, nr_zones), which is
\* zbc_report_zones with a NULL buffer.
zbc_report_nr_zones(d, sector, ro, be) ==
    report_zones(d, sector, ro, FALSE, 0, be)

\* Faulty variant of list_report_failed: the zone array is not freed.
list_report_failed_leak(none, r) ==
    [ none EXCEPT !.ret = r.ret, !.calls = none.calls \o r.calls,
                  !.allocated = TRUE, !.alloc_n = none.counted ]

\* if (ret != 0) after zbc_report_zones in zbc_list_zones: free(zones) and
\* return ret, the outputs untouched.
list_report_failed(none, r) ==
    [ none EXCEPT !.ret = r.ret, !.calls = none.calls \o r.calls,
                  !.allocated = TRUE, !.alloc_n = none.counted,
                  !.freed = TRUE ]

\* zbc_list_zones(dev, sector, ro, pzones, pnr_zones). cq is the backend of
\* the count query, be the backend of the report that follows; alloc tells
\* whether calloc succeeds. set: *pzones and *pnr_zones were assigned;
\* allocated / freed: the zone array, of alloc_n descriptors.
list_zones(d, sector, ro, cq, be, alloc) ==
    LET c == zbc_report_nr_zones(d, sector, zbc_ro_mask(ro), cq)
        r == report_zones(d, sector, zbc_ro_mask(ro), TRUE, c.nr_zones, be)
        none == [ ret |-> 0, nr_zones |-> 0, out |-> << >>,
                  calls |-> c.calls, counted |-> c.nr_zones, set |-> FALSE,
                  allocated |-> FALSE, alloc_n |-> 0, freed |-> FALSE ]
    IN  IF c.ret < 0 THEN [ none EXCEPT !.ret = c.ret ]
        ELSE IF c.nr_zones = 0 THEN [ none EXCEPT !.set = TRUE ]
        ELSE IF ~alloc THEN [ none EXCEPT !.ret = -ENOMEM ]
        ELSE IF r.ret # 0
        THEN list_report_failed(none, r)
        ELSE [ ret |-> 0, nr_zones |-> r.nr_zones, out |-> r.out,
               calls |-> c.calls \o r.calls, counted |-> c.nr_zones,
               set |-> TRUE, allocated |-> TRUE, alloc_n |-> c.nr_zones,
               freed |-> FALSE ]

\* The backends of the model: one zone per call or as many as asked for;
\* no call fails, or the first, or the second.
Backends == [ lim : { 1, NumZones }, err : 0 .. 2 ]

\* The backends of a count query, which is one call: it succeeds or fails.
CountBackends == [ lim : { NumZones }, err : 0 .. 1 ]

\* Start sectors asked for: at a zone start, inside a zone, at the end of
\* the device and past it.
StartSectors ==
    { 0, 1, ZoneSectors, CapUnits * 2 - 1, CapUnits * 2, CapUnits * 2 + 1 }

zbc_report_zones ==
    /\ rz.pc = "idle"
    /\ \E d \in ZonedDevices, sector \in StartSectors,
          ro \in ReportingOptions, buf \in BOOLEAN,
          nr \in 0 .. NumZones + 1, be \in Backends :
         LET r == report_zones(d, sector, ro, buf, nr, be)
         IN  rz' = [ pc |-> "done", fn |-> "report", dev |-> d,
                     sector |-> sector, ro |-> ro, buf |-> buf, nr |-> nr,
                     ret |-> r.ret, nr_zones |-> r.nr_zones, out |-> r.out,
                     calls |-> r.calls, counted |-> 0, set |-> FALSE,
                     allocated |-> FALSE, alloc_n |-> 0, freed |-> FALSE ]
    /\ UNCHANGED << ioVars, openVars, iz, hd, zac, mp >>

zbc_list_zones ==
    /\ rz.pc = "idle"
    /\ \E d \in ZonedDevices, sector \in StartSectors,
          ro \in ReportingOptions, cq \in CountBackends, be \in Backends,
          alloc \in BOOLEAN :
         LET r == list_zones(d, sector, ro, cq, be, alloc)
         IN  rz' = [ pc |-> "done", fn |-> "list", dev |-> d,
                     sector |-> sector, ro |-> ro, buf |-> TRUE, nr |-> 0,
                     ret |-> r.ret, nr_zones |-> r.nr_zones, out |-> r.out,
                     calls |-> r.calls, counted |-> r.counted,
                     set |-> r.set, allocated |-> r.allocated,
                     alloc_n |-> r.alloc_n, freed |-> r.freed ]
    /\ UNCHANGED << ioVars, openVars, iz, hd, zac, mp >>

\* The backends that do not report the zones from the start sector on: one
\* or two zones per call, no call failing or the third.
MisbehavingBackends ==
    [ lim : { 1, 2 }, err : { 0, 3 }, mode : { "zero_length", "stuck" } ]

\* zbc_report_zones into a zone array over a backend that misbehaves.
zbc_report_zones_misbehaving ==
    /\ rz.pc = "idle"
    /\ \E d \in ZonedDevices, sector \in { 0, 1, ZoneSectors },
          ro \in ReportingOptions, nr \in 0 .. NumZones + 1,
          be \in MisbehavingBackends :
         LET r == report_zones(d, sector, ro, TRUE, nr, be)
         IN  rz' = [ pc |-> "done", fn |-> "report_misbehaving", dev |-> d,
                     sector |-> sector, ro |-> ro, buf |-> TRUE, nr |-> nr,
                     ret |-> r.ret, nr_zones |-> r.nr_zones, out |-> r.out,
                     calls |-> r.calls, counted |-> 0, set |-> FALSE,
                     allocated |-> FALSE, alloc_n |-> 0, freed |-> FALSE ]
    /\ UNCHANGED << ioVars, openVars, iz, hd, zac, mp >>

NextReport ==
    \/ zbc_report_zones
    \/ zbc_list_zones
    \/ zbc_report_zones_misbehaving

InitReport ==
    /\ rz = RzIdle
    /\ IOIdle
    /\ OpenIdle
    /\ iz = IzIdle
    /\ hd = HdIdle
    /\ zac = ZacIdle
    /\ mp = MpIdle

\* The report iterator: one zbc_report_zones or zbc_list_zones call.
SpecReport == InitReport /\ [][NextReport]_vars

---------------------------------------------------------------------------
\* A handle through its life: zbc_open, the operations, zbc_close. The ATA
\* backend's open and close are zbc_ata_open and zbc_ata_close.

\* The points at which zbc_ata_open can fail.
AtaOpenFaults ==
    { "none", "open", "fstat", "mode", "calloc", "strdup", "get_info" }

\* The label zbc_ata_open leaves by at each failure after open(2) succeeded.
ata_open_label(fault) ==
    CASE fault \in { "fstat", "mode", "calloc" } -> "out"
      [] fault = "strdup"                        -> "out_free_dev"
      [] fault = "get_info"                      -> "out_free_filename"

\* Faulty variant of ata_open_release: out_free_filename does not fall
\* through to free(dev).
ata_open_release_name_only(label) ==
    CASE label = "out_free_filename" -> { "name", "fd" }
      [] label = "out_free_dev"      -> { "dev", "fd" }
      [] label = "out"               -> { "fd" }

\* What the code from a label of zbc_ata_open on releases: the labels fall
\* through, out_free_filename to out_free_dev to out.
ata_open_release(label) ==
    CASE label = "out_free_filename" -> { "name", "dev", "fd" }
      [] label = "out_free_dev"      -> { "dev", "fd" }
      [] label = "out"               -> { "fd" }

\* The value zbc_ata_open returns at each failure, err being the -errno of
\* the failing call (of zbc_ata_get_info for "get_info").
ata_open_ret(fault, err) ==
    CASE fault = "none"                  -> 0
      [] fault \in { "open", "fstat" }   -> err
      [] fault = "mode"                  -> -ENXIO
      [] fault \in { "calloc", "strdup" } -> -ENOMEM
      [] fault = "get_info"              -> err

\* The resources of a handle no backend has acquired.
NoResources ==
    [ called |-> FALSE, ret |-> 0, file_opened |-> FALSE, fd |-> "none",
      mem_dev |-> "none", mem_name |-> "none", pdev |-> FALSE ]

\* zbc_ata_open(filename, flags, pdev): the value returned, whether open(2)
\* succeeded, and the state it leaves the descriptor, the handle, the
\* filename copy and *pdev in.
zbc_ata_open(fault, err) ==
    LET got_dev  == fault \in { "strdup", "get_info", "none" }
        got_name == fault \in { "get_info", "none" }
        rel      == IF fault \in { "none", "open" } THEN {}
                    ELSE ata_open_release(ata_open_label(fault))
    IN  [ called      |-> TRUE,
          ret         |-> ata_open_ret(fault, err),
          file_opened |-> fault # "open",
          fd          |-> IF fault = "open" THEN "none"
                          ELSE IF "fd" \in rel THEN "closed" ELSE "open",
          mem_dev     |-> IF ~got_dev THEN "none"
                          ELSE IF "dev" \in rel THEN "freed" ELSE "allocated",
          mem_name    |-> IF ~got_name THEN "none"
                          ELSE IF "name" \in rel THEN "freed"
                          ELSE "allocated",
          pdev        |-> fault = "none" ]

\* The open of a backend whose code is not at hand: on success the handle
\* holds the descriptor, the handle memory and the filename copy; on failure
\* nothing is left behind.
backend_open(r) ==
    IF r = 0
    THEN [ called |-> TRUE, ret |-> 0, file_opened |-> TRUE, fd |-> "open",
           mem_dev |-> "allocated", mem_name |-> "allocated", pdev |-> TRUE ]
    ELSE [ NoResources EXCEPT !.called = TRUE, !.ret = r ]

\* zbc_ata_close(dev): r is what close(2) returns (0 or -1 with errno EIO),
\* fd_after the state of the descriptor after a failed close(2), which POSIX
\* leaves unspecified.
zbc_ata_close(res, r, fd_after) ==
    IF r # 0
    THEN [ ret |-> -EIO, res |-> [ res EXCEPT !.fd = fd_after ] ]
    ELSE [ ret |-> 0,
           res |-> [ res EXCEPT !.fd = "closed", !.mem_dev = "freed",
                                !.mem_name = "freed" ] ]

\* The close of a backend whose code is not at hand: everything is torn down
\* whatever close(2) returns.
backend_close(res, r) ==
    [ ret |-> IF r # 0 THEN -EIO ELSE 0,
      res |-> [ res EXCEPT !.fd = "closed", !.mem_dev = "freed",
                           !.mem_name = "freed" ] ]

\* The errors open(2), fstat(2) and zbc_ata_get_info fail with.
AtaOpenErrors == { -ENXIO, -EACCES, -EIO }

\* Faulty variant of dispatch: the first backend of the list is called.
dispatch_first(h) == zbc_drv[1]

\* dev->zbd_drv: the backend an operation on the handle is sent to.
dispatch(h) == h.zbd_drv

\* The backend has the optional zbd_set_zones and zbd_set_wp operations: the
\* emulator only.
has_set_zones(drv) == drv = "FAKE"

\* What a backend operation other than a transfer returns.
OpRets == { 0, -EIO }

\* No argument recorded for the operation.
NoArgs == << >>

\* The thread's error record before any backend wrote it: zeroes.
NoSense == [ sk |-> "0", asc_ascq |-> "0" ]

\* The error record a backend writes when it decodes the sense data of a
\* failed command.
Senses ==
    { [ sk |-> "ILLEGAL_REQUEST", asc_ascq |-> "INVALID_FIELD_IN_CDB" ] }

\* What the backend calls cs of an operation that returned r may leave in
\* the thread's error record z: a backend writes the record only for a
\* command that failed.
BackendSenses(z, r, cs) ==
    IF cs # << >> /\ r < 0 THEN Senses \cup { z } ELSE { z }

\* Faulty variant of zerrno_after: an operation that made no backend call
\* clears the record.
zerrno_after_cleared(z, cs, sense) == IF cs = << >> THEN NoSense ELSE sense

\* zerrno after an operation that made the backend calls cs, sense being
\* what they left in it: the library never writes the record itself.
zerrno_after(z, cs, sense) == IF cs = << >> THEN z ELSE sense

\* The handle after an operation called with the arguments a that made the
\* backend calls cs and returned r: nothing else of the handle changes.
after_op_args(name, a, r, cs) ==
    \E sense \in BackendSenses(hd.zerrno, r, cs) :
        hd' = [ hd EXCEPT !.op = name, !.args = a, !.ret = r, !.calls = cs,
                          !.zerrno = zerrno_after(hd.zerrno, cs, sense) ]

\* The same for an operation whose arguments are not recorded.
after_op(name, r, cs) == after_op_args(name, NoArgs, r, cs)

\* zbc_open with an empty restrict mask on a build with the block backend.
\* The ATA backend's zbd_open is zbc_ata_open; dv is the device found.
zbc_open_handle ==
    /\ hd.pc = "idle"
    /\ \E dv \in Devices, res \in [ ZBC_O_DRV_MASK \ { "ATA" } -> OpenRets ],
          fault \in AtaOpenFaults, err \in AtaOpenErrors :
         LET ata  == zbc_ata_open(fault, err)
             res2 == [ d \in ZBC_O_DRV_MASK |->
                         IF d = "ATA" THEN ata.ret ELSE res[d] ]
             out  == zbc_open_loop(1, -ENODEV, << >>,
                                   allowed_drv({}, TRUE), res2)
             drv  == out.pdev.zbd_drv
             tried == \E k \in 1 .. Len(out.probes) :
                          out.probes[k].drv = "ATA"
         IN  hd' = [ pc      |-> IF out.ret = 0 THEN "open" ELSE "failed",
                     device  |-> dv,
                     zbd_drv |-> drv,
                     probes  |-> out.probes,
                     ata     |-> IF tried THEN ata ELSE NoResources,
                     res     |-> IF drv = "ATA" THEN ata
                                 ELSE IF drv = "none" THEN NoResources
                                 ELSE backend_open(0),
                     op      |-> "zbc_open",
                     args    |-> NoArgs,
                     ret     |-> out.ret,
                     zerrno  |-> NoSense,
                     calls   |-> << >> ]
    /\ UNCHANGED << ioVars, openVars, iz, rz, zac, mp >>

\* zbc_close(dev): the backend's zbd_close.
zbc_close ==
    /\ hd.pc = "open"
    /\ \E r \in { 0, -1 }, fd_after \in { "open", "closed" } :
         LET drv == dispatch(hd)
             c   == IF drv = "ATA" THEN zbc_ata_close(hd.res, r, fd_after)
                    ELSE backend_close(hd.res, r)
         IN  hd' = [ hd EXCEPT !.pc = "closed", !.op = "zbc_close",
                               !.args = NoArgs,
                               !.ret = c.ret, !.res = c.res,
                               !.calls = << [ fn |-> "zbd_close",
                                              drv |-> drv ] >> ]
    /\ UNCHANGED << ioVars, openVars, iz, rz, zac, mp >>

\* zbc_get_device_info(dev, info): a copy of zbd_info, no backend call.
zbc_get_device_info ==
    /\ hd.pc = "open"
    /\ after_op("zbc_get_device_info", 0, << >>)
    /\ UNCHANGED << ioVars, openVars, iz, rz, zac, mp >>

\* zbc.h: enum zbc_zone_op, the operations on a zone.
ZoneOps == { "ZBC_OP_RESET_ZONE", "ZBC_OP_OPEN_ZONE", "ZBC_OP_CLOSE_ZONE",
             "ZBC_OP_FINISH_ZONE" }

\* zbc.h: the values of the flags argument, a set of flag names:
\* ZBC_OP_ALL_ZONES or none.
ZoneOpFlags == { {}, { "ZBC_OP_ALL_ZONES" } }

\* Faulty variant of zone_op_invalid: the sector is validated whatever the
\* flags are.
zone_op_invalid_always(d, sector, flags) ==
    ~zbc_test_mode(d) /\ ~zbc_dev_sect_laligned(d, sector)

\* The test that opens zbc_zone_operation: outside test mode, without
\* ZBC_OP_ALL_ZONES, the sector is not aligned on a logical block.
zone_op_invalid(d, sector, flags) ==
    /\ ~zbc_test_mode(d)
    /\ "ZBC_OP_ALL_ZONES" \notin flags
    /\ ~zbc_dev_sect_laligned(d, sector)

\* zbc_zone_operation(dev, sector, op, flags); the backend call is recorded
\* with the arguments it is given.
zbc_zone_operation ==
    /\ hd.pc = "open"
    /\ \E sector \in 0 .. 1, zop \in ZoneOps, flags \in ZoneOpFlags,
          r \in OpRets :
         LET a == << sector, zop, flags >>
         IN  IF zone_op_invalid(hd.device, sector, flags)
             THEN after_op_args("zbc_zone_operation", a, -EINVAL, << >>)
             ELSE after_op_args("zbc_zone_operation", a, r,
                      << [ fn |-> "zbd_zone_op", drv |-> dispatch(hd),
                           args |-> << sector, zop, flags >> ] >>)
    /\ UNCHANGED << ioVars, openVars, iz, rz, zac, mp >>

\* zbc_flush(dev)
zbc_flush ==
    /\ hd.pc = "open"
    /\ \E r \in OpRets :
         after_op("zbc_flush", r,
                  << [ fn |-> "zbd_flush", drv |-> dispatch(hd) ] >>)
    /\ UNCHANGED << ioVars, openVars, iz, rz, zac, mp >>

\* Faulty variant of optional_op_check: the arguments validated before
\* the test for the operation.
optional_op_check_args_first(has, d, a, b) ==
    IF ~zbc_dev_sect_paligned(d, a) \/ ~zbc_dev_sect_paligned(d, b)
    THEN -EINVAL
    ELSE IF ~has THEN -ENXIO
    ELSE 0

\* The checks of zbc_set_zones and zbc_set_write_pointer before the backend
\* call: the operation must be there, then both arguments must be aligned
\* on the physical block; 0 lets the call through.
optional_op_check(has, d, a, b) ==
    IF ~has THEN -ENXIO
    ELSE IF ~zbc_dev_sect_paligned(d, a) \/ ~zbc_dev_sect_paligned(d, b)
    THEN -EINVAL
    ELSE 0

\* zbc_set_zones(dev, conv_sz, zone_sz)
zbc_set_zones ==
    /\ hd.pc = "open"
    /\ \E conv_sz \in 1 .. 2, zone_sz \in 1 .. 2, r \in OpRets :
         LET chk == optional_op_check(has_set_zones(dispatch(hd)), hd.device,
                                      conv_sz, zone_sz)
             a   == << conv_sz, zone_sz >>
         IN  IF chk # 0
             THEN after_op_args("zbc_set_zones", a, chk, << >>)
             ELSE after_op_args("zbc_set_zones", a, r,
                      << [ fn |-> "zbd_set_zones", drv |-> dispatch(hd) ] >>)
    /\ UNCHANGED << ioVars, openVars, iz, rz, zac, mp >>

\* zbc_set_write_pointer(dev, sector, wp_sector)
zbc_set_write_pointer ==
    /\ hd.pc = "open"
    /\ \E sector \in 1 .. 2, wp_sector \in 1 .. 2, r \in OpRets :
         LET chk == optional_op_check(has_set_zones(dispatch(hd)), hd.device,
                                      sector, wp_sector)
             a   == << sector, wp_sector >>
         IN  IF chk # 0
             THEN after_op_args("zbc_set_write_pointer", a, chk, << >>)
             ELSE after_op_args("zbc_set_write_pointer", a, r,
                      << [ fn |-> "zbd_set_wp", drv |-> dispatch(hd) ] >>)
    /\ UNCHANGED << ioVars, openVars, iz, rz, zac, mp >>

\* The backend calls of a report, each sent to the handle's backend.
report_calls(h, r) ==
    [ k \in 1 .. Len(r.calls) |->
        [ fn |-> "zbd_report_zones", drv |-> dispatch(h) ] ]

\* zbc_report_zones(dev, sector, ro, zones, nr_zones) on the handle, the
\* device's zones all being empty.
zbc_report_zones_handle ==
    /\ hd.pc = "open"
    /\ \E sector \in { 0, CapUnits * 2 },
          ro \in { o \in ReportingOptions : o.opt = "ALL" /\ ~o.partial },
          buf \in BOOLEAN, nr \in { NumZones },
          be \in { b \in Backends : b.err < 2 } :
         LET d == [ zbd_sectors |-> hd.device.zbd_sectors,
                    test_mode   |-> hd.device.test_mode,
                    zones       |-> [ i \in 1 .. NumZones |->
                                        ZoneAt(i, [ j \in 1 .. NumZones |->
                                                      "EMPTY" ]) ] ]
             r == report_zones(d, sector, ro, buf, nr, be)
         IN  after_op("zbc_report_zones", r.ret, report_calls(hd, r))
    /\ UNCHANGED << ioVars, openVars, iz, rz, zac, mp >>

\* The backends of a transfer: at most lim sectors per call, and call
\* number err fails with -EIO (0: no call fails).
IoBackends == [ lim : { 1, 4 }, err : 0 .. 2 ]

RECURSIVE rw_loop(_, _, _, _, _, _)
\* The loop of zbc_do_preadv (rd) or zbc_do_pwritev from the cursor on, n
\* backend calls having been made: the value returned and the number of calls.
rw_loop(d, rd, cnt, cursor, n, be) ==
    IF ~(cursor < cnt) THEN [ ret |-> cnt, ncalls |-> n ]
    ELSE LET window == IF rd
                       THEN rd_iov_count(cnt, cursor, d.zbd_max_rw_sectors)
                       ELSE wr_iov_count(cnt, cursor, d.zbd_max_rw_sectors)
             r      == IF be.err = n + 1 THEN -EIO
                       ELSE IF window < be.lim THEN window ELSE be.lim
         IN  IF r <= 0
             THEN [ ret |-> IF rd THEN rd_fail(r) ELSE wr_fail(r),
                    ncalls |-> n + 1 ]
             ELSE rw_loop(d, rd, cnt,
                          IF rd THEN rd_advance(cursor, r, window)
                          ELSE wr_advance(cursor, r, window),
                          n + 1, be)

\* zbc_pread (rd) or zbc_pwrite of cnt sectors at off: zbc_do_preadv or
\* zbc_do_pwritev on a vector of one entry.
rw_run(d, rd, cnt, off, be) ==
    LET c == clamp_count(d, cnt, off)
        aligned == IF rd THEN rd_aligned(d, cnt, off)
                   ELSE wr_aligned(d, cnt, off)
    IN  IF size_overflow(cnt) THEN [ ret |-> -EINVAL, ncalls |-> 0 ]
        ELSE IF zbc_test_mode(d)
             THEN IF cnt = 0 THEN [ ret |-> -EINVAL, ncalls |-> 0 ]
                  ELSE rw_loop(d, rd, cnt, 0, 0, be)
        ELSE IF ~aligned THEN [ ret |-> -EINVAL, ncalls |-> 0 ]
        ELSE IF nothing_to_do(d, c, off) THEN [ ret |-> 0, ncalls |-> 0 ]
        ELSE rw_loop(d, rd, c, 0, 0, be)

\* zbc_pread(dev, buf, count, offset)
zbc_pread ==
    /\ hd.pc = "open"
    /\ \E cnt \in 0 .. MaxLen, off \in 0 .. 1, be \in IoBackends :
         LET r == rw_run(hd.device, TRUE, cnt, off, be)
         IN  after_op("zbc_pread", r.ret,
                      [ k \in 1 .. r.ncalls |->
                          [ fn |-> "zbd_preadv", drv |-> dispatch(hd) ] ])
    /\ UNCHANGED << ioVars, openVars, iz, rz, zac, mp >>

\* zbc_pwrite(dev, buf, count, offset)
zbc_pwrite ==
    /\ hd.pc = "open"
    /\ \E cnt \in 0 .. MaxLen, off \in 0 .. 1, be \in IoBackends :
         LET r == rw_run(hd.device, FALSE, cnt, off, be)
         IN  after_op("zbc_pwrite", r.ret,
                      [ k \in 1 .. r.ncalls |->
                          [ fn |-> "zbd_pwritev", drv |-> dispatch(hd) ] ])
    /\ UNCHANGED << ioVars, openVars, iz, rz, zac, mp >>

\* The vectors of the vectored calls on the handle, an entry being its length
\* in sectors: none, one or two entries of buffers that can exist.
VecArgs == { << >>, << 1 >>, << 2 >>, << 1, 1 >> }

\* Vectors whose total is 2^22 sectors or more: the byte count of the first
\* two is above SSIZE_MAX and below 2^32, that of the last two is 2^32 or
\* more and wraps in size_t.
HugeVecs ==
    { << SizeWrapSectors \div 2 >>, << 1, SizeWrapSectors \div 2 >>,
      << SizeWrapSectors >>, << SizeWrapSectors, 2 >> }

\* The vectors a call on the device d is made with. In test mode a request
\* is not clamped to the capacity, and the loop of one of 2^23 sectors makes
\* millions of backend calls: the huge vectors are left to the other
\* devices.
VecsOf(d) == IF zbc_test_mode(d) THEN VecArgs ELSE VecArgs \cup HugeVecs

\* zbc_preadv (rd) or zbc_pwritev: null tells that iov is NULL, iovcnt is
\* Len(v).
rwv_run(d, rd, null, v, off, be) ==
    IF null \/ Len(v) <= 0 THEN [ ret |-> -EINVAL, ncalls |-> 0 ]
    ELSE rw_run(d, rd, zbc_iov_count(v), off, be)

\* zbc_preadv(dev, iov, iovcnt, offset) on the handle.
zbc_preadv_handle ==
    /\ hd.pc = "open"
    /\ \E v \in VecsOf(hd.device), off \in { 0 },
          be \in { b \in IoBackends : b.err < 2 } :
       \E null \in (IF v \in { << >>, << 1 >> } THEN BOOLEAN
                    ELSE { FALSE }) :
         LET r == rwv_run(hd.device, TRUE, null, v, off, be)
         IN  after_op_args("zbc_preadv",
                 [ null |-> null, iov |-> v, offset |-> off ], r.ret,
                 [ k \in 1 .. r.ncalls |->
                     [ fn |-> "zbd_preadv", drv |-> dispatch(hd) ] ])
    /\ UNCHANGED << ioVars, openVars, iz, rz, zac, mp >>

\* zbc_pwritev(dev, iov, iovcnt, offset) on the handle.
zbc_pwritev_handle ==
    /\ hd.pc = "open"
    /\ \E v \in VecsOf(hd.device), off \in { 0 },
          be \in { b \in IoBackends : b.err < 2 } :
       \E null \in (IF v \in { << >>, << 1 >> } THEN BOOLEAN
                    ELSE { FALSE }) :
         LET r == rwv_run(hd.device, FALSE, null, v, off, be)
         IN  after_op_args("zbc_pwritev",
                 [ null |-> null, iov |-> v, offset |-> off ], r.ret,
                 [ k \in 1 .. r.ncalls |->
                     [ fn |-> "zbd_pwritev", drv |-> dispatch(hd) ] ])
    /\ UNCHANGED << ioVars, openVars, iz, rz, zac, mp >>

\* zbc_errno(dev, err): *err is a copy of the thread's error record.
zbc_errno ==
    /\ hd.pc = "open"
    /\ hd' = [ hd EXCEPT !.op = "zbc_errno", !.args = [ err |-> hd.zerrno ],
                         !.ret = 0, !.calls = << >> ]
    /\ UNCHANGED << ioVars, openVars, iz, rz, zac, mp >>

NextHandle ==
    \/ zbc_open_handle
    \/ zbc_close
    \/ zbc_get_device_info
    \/ zbc_zone_operation
    \/ zbc_flush
    \/ zbc_set_zones
    \/ zbc_set_write_pointer
    \/ zbc_report_zones_handle
    \/ zbc_pread
    \/ zbc_pwrite
    \/ zbc_preadv_handle
    \/ zbc_pwritev_handle
    \/ zbc_errno

InitHandle ==
    /\ hd = HdIdle
    /\ IOIdle
    /\ OpenIdle
    /\ iz = IzIdle
    /\ rz = RzIdle
    /\ zac = ZacIdle
    /\ mp = MpIdle

\* One handle: opened, operated on, closed.
SpecHandle == InitHandle /\ [][NextHandle]_vars

\* The backend whose zbd_open returned 0 in zbc_open's probing loop.
AcceptedAtOpen == hd.probes[Len(hd.probes)].drv

\* C13: the backend of a handle is fixed by the successful open. No
\* operation on the open handle changes dev->zbd_drv, which is the backend
\* that accepted the device, and every backend call an operation makes goes
\* to that backend.
C13_BackendFixed ==
    /\ [](hd.pc \in { "open", "closed" } =>
            /\ hd.probes[Len(hd.probes)].ret = 0
            /\ hd.zbd_drv = AcceptedAtOpen
            /\ \A k \in 1 .. Len(hd.calls) : hd.calls[k].drv = AcceptedAtOpen)
    /\ [][hd.pc = "open" => hd'.zbd_drv = hd.zbd_drv]_vars

\* A write of two backend calls on a handle the SCSI backend accepted after
\* the block backend declined.
C13_Witness ==
    /\ hd.pc = "open" /\ hd.zbd_drv = "SCSI" /\ Len(hd.probes) = 2
    /\ hd.op = "zbc_pwrite" /\ Len(hd.calls) = 2
    /\ hd.calls[2] = [ fn |-> "zbd_pwritev", drv |-> "SCSI" ]

\* C14: closing a handle tears everything down on every path: after
\* zbc_close has returned the descriptor is closed and the filename copy and
\* the handle are freed, also when closing the descriptor failed.
C14_CloseTearsDown ==
    hd.pc = "closed" =>
        /\ hd.res.fd = "closed"
        /\ hd.res.mem_name = "freed"
        /\ hd.res.mem_dev = "freed"

\* C15: zbc_ata_open releases what it acquired on every failing exit after
\* open(2) succeeded: the descriptor is closed, the handle and the filename
\* copy are freed if they were allocated, and *pdev is not set. On success
\* *pdev is set and the handle holds the open descriptor.
C15_AtaOpenReleases ==
    (hd.pc # "idle" /\ hd.ata.called) =>
        /\ (hd.ata.ret # 0 /\ hd.ata.file_opened) =>
              /\ hd.ata.fd = "closed"
              /\ hd.ata.mem_dev \in { "none", "freed" }
              /\ hd.ata.mem_name \in { "none", "freed" }
              /\ ~hd.ata.pdev
        /\ (hd.ata.ret # 0 /\ ~hd.ata.file_opened) =>
              /\ hd.ata.fd = "none" /\ hd.ata.mem_dev = "none"
              /\ hd.ata.mem_name = "none" /\ ~hd.ata.pdev
        /\ hd.ata.ret = 0 =>
              /\ hd.ata.pdev /\ hd.ata.fd = "open"
              /\ hd.ata.mem_dev = "allocated" /\ hd.ata.mem_name = "allocated"
              /\ hd.zbd_drv = "ATA"

\* zbc_ata_get_info failed with -EIO after the handle and the filename copy
\* were allocated: both were freed and the descriptor closed.
C15_Witness ==
    /\ hd.pc = "failed" /\ hd.ata.called /\ hd.ata.ret = -EIO
    /\ hd.ata.file_opened /\ hd.ata.fd = "closed"
    /\ hd.ata.mem_dev = "freed" /\ hd.ata.mem_name = "freed"
    /\ ~hd.ata.pdev

\* A zbc_report_zones call has returned.
Reported == rz.pc = "done" /\ rz.fn = "report"

\* The start sector is past the last sector of a handle not in test mode.
PastEnd == ~rz.dev.test_mode /\ rz.sector >= rz.dev.zbd_sectors

\* The zones of the device that end after the start sector and pass the
\* caller's filter.
ZonesFromStart ==
    { i \in 1 .. Len(rz.dev.zones) :
        /\ rz.dev.zones[i].zbz_start + rz.dev.zones[i].zbz_length > rz.sector
        /\ (rz.ro.opt = "ALL" \/ rz.dev.zones[i].zbz_cond = rz.ro.opt) }

\* The one backend call of a count query.
CountCall ==
    /\ Len(rz.calls) = 1
    /\ rz.calls[1].sector = rz.sector
    /\ rz.calls[1].at = -1
    /\ rz.calls[1].asked = 0
    /\ rz.calls[1].ro = [ opt |-> rz.ro.opt, partial |-> FALSE ]
    /\ rz.ret = rz.calls[1].ret
    /\ rz.ret = 0 => rz.nr_zones = Cardinality(ZonesFromStart)

\* C16 as stated: with a NULL buffer zbc_report_zones makes exactly one
\* backend call, with a NULL buffer, a count of 0 and the caller's option
\* without the PARTIAL bit, and returns the backend's total in *nr_zones.
C16_CountQueryAlways == (Reported /\ ~rz.buf) => CountCall

\* C16, amended: that holds when the start sector is below the capacity or
\* the handle is in test mode; otherwise no backend call is made and 0 is
\* returned with *nr_zones = 0.
C16_CountQuery ==
    (Reported /\ ~rz.buf) =>
        IF PastEnd
        THEN rz.calls = << >> /\ rz.ret = 0 /\ rz.nr_zones = 0
        ELSE CountCall

\* A count query from inside the second zone, PARTIAL set by the caller: one
\* backend call without PARTIAL, and the count of the zones from there on.
C16_Witness ==
    /\ Reported /\ ~rz.buf /\ rz.ro.partial /\ rz.ro.opt = "ALL"
    /\ rz.sector = ZoneSectors /\ rz.ret = 0
    /\ Len(rz.calls) = 1 /\ ~rz.calls[1].ro.partial
    /\ rz.nr_zones = NumZones - 1

\* The zones accumulated by the first k backend calls.
RECURSIVE Accumulated(_)
Accumulated(k) ==
    IF k = 0 THEN 0 ELSE Accumulated(k - 1) + Len(rz.calls[k].zones)

\* The zones the backend calls returned, in order.
RECURSIVE Returned(_)
Returned(k) ==
    IF k = 0 THEN << >> ELSE Returned(k - 1) \o rz.calls[k].zones

\* The last zone call k returned.
LastZone(k) == rz.calls[k].zones[Len(rz.calls[k].zones)]

\* After call k one of the three reasons to stop holds: (a) the call
\* returned no zone, (b) *nr_zones zones are accumulated, (c) the last zone
\* returned ends at or past the capacity.
StopAfter(k) ==
    \/ Len(rz.calls[k].zones) = 0
    \/ Accumulated(k) >= rz.nr
    \/ /\ Len(rz.calls[k].zones) > 0
       /\ LastZone(k).zbz_start + LastZone(k).zbz_length >= rz.dev.zbd_sectors

C18_NextStart ==
    (Reported /\ rz.buf) =>
        /\ rz.calls # << >> => rz.calls[1].sector = rz.sector
        /\ \A k \in 1 .. Len(rz.calls) - 1 :
              /\ Len(rz.calls[k].zones) > 0
              /\ rz.calls[k + 1].sector =
                     LastZone(k).zbz_start + LastZone(k).zbz_length

\* A report from inside the first zone in rounds of one zone: the second
\* round starts at the end of the first zone, the third at the end of the
\* second.
C18_Witness ==
    /\ Reported /\ rz.buf /\ rz.sector = 1 /\ rz.ro.opt = "ALL"
    /\ Len(rz.calls) = 3
    /\ rz.calls[1].sector = 1
    /\ rz.calls[2].sector = ZoneSectors
    /\ rz.calls[3].sector = 2 * ZoneSectors

\* C19: every backend call of the accumulating mode carries the caller's
\* option with PARTIAL set and nothing else changed, asks for no more than
\* *nr_zones minus the zones accumulated, and has its buffer at
\* zones[accumulated]. As no round returns more than asked, the zones written
\* stay inside zones[0 .. *nr_zones) and are the zones the rounds returned,
\* in order, none dropped or filtered out.
C19_RoundArguments ==
    (Reported /\ rz.buf) =>
        /\ \A k \in 1 .. Len(rz.calls) :
              /\ rz.calls[k].ro = [ opt |-> rz.ro.opt, partial |-> TRUE ]
              /\ rz.calls[k].asked <= rz.nr - Accumulated(k - 1)
              /\ rz.calls[k].asked > 0
              /\ rz.calls[k].at = Accumulated(k - 1)
        /\ (\A k \in 1 .. Len(rz.calls) :
                Len(rz.calls[k].zones) <= rz.calls[k].asked) =>
              /\ Len(rz.out) <= rz.nr
              /\ rz.out = Returned(Len(rz.calls))

\* Under the filter FULL three rounds of one zone each fill a buffer of
\* three out of four asked for; the caller had not set PARTIAL.
C19_Witness ==
    /\ Reported /\ rz.buf /\ rz.ret = 0 /\ ~rz.ro.partial
    /\ rz.ro.opt = "FULL" /\ rz.nr = NumZones + 1
    /\ Len(rz.calls) >= 2 /\ rz.calls[2].at = 1
    /\ rz.calls[2].asked = NumZones
    /\ Len(rz.out) >= 2
    /\ \A i \in 1 .. Len(rz.out) : rz.out[i].zbz_cond = "FULL"

\* C20: on a device that does not change, zbc_list_zones from sector 0 under
\* ALL returns as many zones as the count query from sector 0 under ALL
\* counts: every zone of the device, also when the backend hands them out
\* over several rounds.
C20_ListComplete ==
    (rz.pc = "done" /\ rz.fn = "list" /\ rz.ret = 0
        /\ rz.sector = 0 /\ rz.ro.opt = "ALL") =>
        /\ rz.set
        /\ rz.nr_zones = rz.counted
        /\ rz.counted = Cardinality(ZonesFromStart)
        /\ Len(rz.out) = rz.counted
        /\ \A i \in 1 .. Len(rz.out) : rz.out[i] = rz.dev.zones[i]

\* The whole device listed by a backend that returns one zone per round.
C20_Witness ==
    /\ rz.pc = "done" /\ rz.fn = "list" /\ rz.ret = 0
    /\ rz.sector = 0 /\ rz.ro.opt = "ALL"
    /\ Len(rz.calls) = 1 + NumZones
    /\ \A k \in 2 .. Len(rz.calls) : Len(rz.calls[k].zones) = 1
    /\ rz.nr_zones = NumZones

\* A zbc_list_zones call has returned.
Listed == rz.pc = "done" /\ rz.fn = "list"

\* C21: zbc_list_zones issues the count query first, allocates exactly the
\* counted number of descriptors and then reports into them. When the count
\* query or the report fails the error is returned, the array, if allocated,
\* is freed and *pzones and *pnr_zones are not assigned. A count of zero is
\* a success with a NULL array and count 0, without another backend call.
C21_ListZones ==
    Listed =>
        /\ rz.calls # << >> => rz.calls[1].at = -1
        /\ \A k \in 2 .. Len(rz.calls) : rz.calls[k].at >= 0 /\ rz.allocated
        /\ rz.allocated =>
              /\ rz.alloc_n = rz.counted /\ rz.counted > 0
              /\ rz.calls[1].ret = 0
              /\ Len(rz.calls) >= 2 /\ rz.calls[2].asked = rz.counted
        /\ rz.ret # 0 =>
              /\ ~rz.set
              /\ rz.allocated => rz.freed
              /\ rz.ret # -ENOMEM => rz.ret = rz.calls[Len(rz.calls)].ret
        /\ rz.ret = 0 =>
              /\ rz.set
              /\ rz.allocated <=> rz.counted > 0
              /\ ~rz.freed
              /\ rz.counted = 0 =>
                    rz.out = << >> /\ rz.nr_zones = 0 /\ Len(rz.calls) <= 1

\* The report fails in its second round, after the array was allocated: the
\* array is freed and the outputs are not assigned.
C21_Witness ==
    /\ Listed /\ rz.ret = -EIO /\ Len(rz.calls) = 3
    /\ rz.calls[1].ret = 0 /\ rz.calls[2].ret = 0 /\ rz.calls[3].ret = -EIO
    /\ rz.allocated /\ rz.freed /\ ~rz.set

---------------------------------------------------------------------------
\* The ATA backend: zbc_ata_report_zones over the Report Zones log (0x1A).
\* A 64-bit value is the tuple of its four 16-bit limbs, least significant
\* first, and a 32-bit value the tuple of its two: TLC's integers hold 32
\* bits.

ZBC_ATA_ZONE_DESCRIPTOR_LENGTH == 64

ZBC_ATA_ZONE_DESCRIPTOR_OFFSET == 64

ZBC_ATA_LOG_SIZE == 65536

\* int buf_sz = 512: the size of a log page and of the first read.
AtaPageSize == 512

\* zbc_ata_get_word(&buf[k])
zbc_ata_get_word(buf, k) == buf[k] + buf[k + 1] * 256

\* zbc_ata_get_dword(&buf[k])
zbc_ata_get_dword(buf, k) ==
    << buf[k] + buf[k + 1] * 256, buf[k + 2] + buf[k + 3] * 256 >>

\* Faulty variant of zbc_ata_get_qword: the bytes taken most significant
\* first.
zbc_ata_get_qword_be(buf, k) ==
    << buf[k + 7] + buf[k + 6] * 256, buf[k + 5] + buf[k + 4] * 256,
       buf[k + 3] + buf[k + 2] * 256, buf[k + 1] + buf[k] * 256 >>

\* zbc_ata_get_qword(&buf[k])
zbc_ata_get_qword(buf, k) ==
    << buf[k] + buf[k + 1] * 256, buf[k + 2] + buf[k + 3] * 256,
       buf[k + 4] + buf[k + 5] * 256, buf[k + 6] + buf[k + 7] * 256 >>

\* nz = zbc_ata_get_dword(buf): the conversion of the uint32_t to int.
dword_to_int(d) ==
    IF d[2] >= 32768 THEN (d[2] - 65536) * 65536 + d[1]
    ELSE d[2] * 65536 + d[1]

\* nz > *nr_zones, the int converted to unsigned for the comparison.
unsigned_gt(nz, nr) == nz < 0 \/ nz > nr

\* The descriptor at byte off of buf.
ata_decode_descriptor(buf, off) ==
    [ zbz_type          |-> buf[off] % 16,
      zbz_condition     |-> (buf[off + 1] \div 16) % 16,
      zbz_length        |-> zbc_ata_get_qword(buf, off + 8),
      zbz_start         |-> zbc_ata_get_qword(buf, off + 16),
      zbz_write_pointer |-> zbc_ata_get_qword(buf, off + 24),
      zbz_need_reset    |-> buf[off + 1] % 2 = 1,
      zbz_non_seq       |-> FALSE ]

\* for (i = 0; i < buf_nz; i++): cnt descriptors from byte off of buf on,
\* descriptor i at byte off + (i - 1) * 64.
ata_decode(buf, off, cnt) ==
    [ i \in 1 .. cnt |->
        ata_decode_descriptor(buf,
            off + (i - 1) * ZBC_ATA_ZONE_DESCRIPTOR_LENGTH) ]

\* The zone conditions and types of the disks: EMPTY and FULL,
\* conventional and sequential-write-required.
AtaConds == { 1, 14 }

\* A 64-bit value below 2^16.
Q(n) == << n, 0, 0, 0 >>

\* The number a 64-bit value below 2^31 stands for.
Num(q) == q[1] + q[2] * 65536

\* Zone i of a disk of zones of ZoneSectors sectors; the zones of `full` are
\* full, the others empty. The first zone is conventional.
AtaZone(i, full) ==
    [ zbz_type          |-> IF i = 1 THEN 1 ELSE 2,
      zbz_condition     |-> IF i \in full THEN 14 ELSE 1,
      zbz_length        |-> Q(ZoneSectors),
      zbz_start         |-> Q((i - 1) * ZoneSectors),
      zbz_write_pointer |-> Q((i - 1) * ZoneSectors
                               + (IF i \in full THEN ZoneSectors ELSE 0)),
      zbz_need_reset    |-> i \in full,
      zbz_non_seq       |-> FALSE ]

\* A zone whose 64-bit fields use all eight bytes.
WideZone ==
    [ zbz_type          |-> 2,
      zbz_condition     |-> 14,
      zbz_length        |-> << 513, 1027, 1541, 2055 >>,
      zbz_start         |-> << 4113, 8755, 13397, 18039 >>,
      zbz_write_pointer |-> << 43707, 52445, 61183, 258 >>,
      zbz_need_reset    |-> TRUE,
      zbz_non_seq       |-> FALSE ]

\* A disk of 25 zones: the descriptors after the first page fill two pages
\* and part of a third.
AtaLongDisk ==
    [ zones |-> [ i \in 1 .. 25 |-> AtaZone(i, { 2 }) ], bogus |-> 0 ]

\* A disk of 3 zones whose header claims 1103: more than a read of
\* ZBC_ATA_LOG_SIZE bytes holds.
AtaOverstatedDisk ==
    [ zones |-> [ i \in 1 .. 3 |-> AtaZone(i, {}) ], bogus |-> 1100 ]

\* *nr_zones on entry, for each disk: no room, less room than the disk has
\* zones, and more.
AtaRoom(disk) ==
    IF disk = AtaLongDisk THEN { 10, 30 }
    ELSE IF disk = AtaOverstatedDisk THEN { 1200 }
    ELSE { 0, 2, 8, 10 }

\* The disks: 0, 3 or 9 zones (the first log page holds 7 descriptors), or
\* one wide zone; `bogus` is what the count in the log's header claims beyond
\* the descriptors the log holds.
AtaDisks ==
    { [ zones |-> [ i \in 1 .. n |-> AtaZone(i, full) ], bogus |-> b ] :
        n \in { 0, 3, 9 }, full \in { {}, { 2 }, { 1, 3 } }, b \in { 0, 2 } }
    \cup { [ zones |-> << WideZone >>, bogus |-> 0 ], AtaLongDisk,
           AtaOverstatedDisk }

\* ro & 0xf: the filter sent to the device in the features field.
ata_ro_opt(ro) == ro.opt

\* The zones the device lists in its log under the filter opt: every zone
\* that passes the filter, from the first zone of the disk on.
AtaLogZones(disk, opt) ==
    LET pass(z) == opt = "ALL" \/ z.zbz_condition = 14
    IN  SelectSeq(disk.zones, pass)

\* Byte b (0 .. 7) of a 64-bit value, byte 0 the least significant.
LimbByte(q, b) ==
    IF b % 2 = 0 THEN q[b \div 2 + 1] % 256 ELSE q[b \div 2 + 1] \div 256

\* Byte j of the 64-byte descriptor the device writes for zone z. The
\* reserved high nibble of byte 0 and bits 1-3 of byte 1 are set.
AtaWireByte(z, j) ==
    IF j = 0 THEN z.zbz_type + 160
    ELSE IF j = 1
         THEN z.zbz_condition * 16 + 12
              + (IF z.zbz_need_reset THEN 1 ELSE 0)
    ELSE IF j \in 8 .. 15 THEN LimbByte(z.zbz_length, j - 8)
    ELSE IF j \in 16 .. 23 THEN LimbByte(z.zbz_start, j - 16)
    ELSE IF j \in 24 .. 31 THEN LimbByte(z.zbz_write_pointer, j - 24)
    ELSE 0

\* Byte a of the log as the device returns it: a 64-byte header with the
\* zone count in its first four bytes, then the descriptors. Past the last
\* descriptor the device returns nothing, and the buffer holds `stale`.
AtaLogByte(disk, opt, stale, a) ==
    LET zs  == AtaLogZones(disk, opt)
        h   == Len(zs) + disk.bogus
        idx == (a - ZBC_ATA_ZONE_DESCRIPTOR_OFFSET)
                   \div ZBC_ATA_ZONE_DESCRIPTOR_LENGTH + 1
        j   == (a - ZBC_ATA_ZONE_DESCRIPTOR_OFFSET)
                   % ZBC_ATA_ZONE_DESCRIPTOR_LENGTH
    IN  IF a < ZBC_ATA_ZONE_DESCRIPTOR_OFFSET
        THEN (IF a = 0 THEN h % 256 ELSE IF a = 1 THEN h \div 256 ELSE 0)
        ELSE IF idx <= Len(zs) THEN AtaWireByte(zs[idx], j)
        ELSE stale

\* The buffer after zbc_ata_read_log(dev, 0x1A, page, opt, buf, bufsz).
ata_read_log(disk, opt, stale, page, bufsz) ==
    [ i \in 0 .. bufsz - 1 |->
        AtaLogByte(disk, opt, stale, page * AtaPageSize + i) ]

\* Faulty variant of ata_next_buf_sz: the size is not capped at
\* ZBC_ATA_LOG_SIZE.
ata_next_buf_sz_uncapped(nz) ==
    LET sz == (nz \div (AtaPageSize \div ZBC_ATA_ZONE_DESCRIPTOR_LENGTH))
                  * AtaPageSize
    IN  IF sz = 0 THEN AtaPageSize ELSE sz

\* buf_sz of the next read, nz descriptors being left to get.
ata_next_buf_sz(nz) ==
    LET sz == (nz \div (AtaPageSize \div ZBC_ATA_ZONE_DESCRIPTOR_LENGTH))
                  * AtaPageSize
    IN  IF sz = 0 THEN AtaPageSize
        ELSE IF sz > ZBC_ATA_LOG_SIZE THEN ZBC_ATA_LOG_SIZE
        ELSE sz

RECURSIVE ata_report_loop(_, _, _, _, _, _, _, _, _)
\* while (nz) of zbc_ata_report_zones: nz descriptors left to decode, buf the
\* buffer of the last read (of the pages from `page` on, buf_sz bytes),
\* buf_nz descriptors to take from its byte off on; zs the zones decoded,
\* reads the log reads made. c holds what does not change: the disk, the
\* filter, the stale byte and the number of the read that fails (0: none).
ata_report_loop(c, nz, page, buf_sz, buf, off, buf_nz, zs, reads) ==
    LET zs2   == zs \o ata_decode(buf, off, buf_nz)
        nz2   == nz - buf_nz
        page2 == page + buf_sz \div AtaPageSize
        sz2   == ata_next_buf_sz(nz2)
        rd    == [ page |-> page2, bufsz |-> sz2, opt |-> c.opt,
                   ret |-> IF c.fail = Len(reads) + 1 THEN -EIO ELSE 0 ]
        cap   == sz2 \div ZBC_ATA_ZONE_DESCRIPTOR_LENGTH
    IN  IF nz2 = 0
        THEN [ ret |-> 0, done |-> TRUE, zones |-> zs2, reads |-> reads ]
        ELSE IF rd.ret # 0
        THEN [ ret |-> rd.ret, done |-> FALSE, zones |-> zs2,
               reads |-> Append(reads, rd) ]
        ELSE ata_report_loop(c, nz2, page2, sz2,
                 ata_read_log(c.disk, c.opt, c.stale, page2, sz2), 0,
                 IF cap > nz2 THEN nz2 ELSE cap, zs2, Append(reads, rd))

\* zbc_ata_report_zones(dev, start_lba, ro, zones, nr_zones): has_zones tells
\* whether zones is non-NULL, nr is *nr_zones on entry, mem whether
\* posix_memalign succeeds. start_lba is not used by the function. The
\* result: the value returned, *nr_zones, the zones written and the log
\* reads made.
ata_report_zones(disk, start_lba, ro, has_zones, nr, stale, fail, mem) ==
    LET c    == [ disk |-> disk, opt |-> ata_ro_opt(ro), stale |-> stale,
                  fail |-> fail ]
        rd1  == [ page |-> 0, bufsz |-> AtaPageSize, opt |-> c.opt,
                  ret |-> IF fail = 1 THEN -EIO ELSE 0 ]
        buf  == ata_read_log(disk, c.opt, stale, 0, AtaPageSize)
        nz   == dword_to_int(zbc_ata_get_dword(buf, 0))
        nz1  == IF unsigned_gt(nz, nr) THEN nr ELSE nz
        cap  == (AtaPageSize - ZBC_ATA_ZONE_DESCRIPTOR_OFFSET)
                    \div ZBC_ATA_ZONE_DESCRIPTOR_LENGTH
        l    == ata_report_loop(c, nz1, 0, AtaPageSize, buf,
                    ZBC_ATA_ZONE_DESCRIPTOR_OFFSET,
                    IF cap > nz1 THEN nz1 ELSE cap, << >>, << rd1 >>)
    IN  IF ~mem
        THEN [ ret |-> -ENOMEM, nr_zones |-> nr, zones |-> << >>,
               reads |-> << >> ]
        ELSE IF rd1.ret # 0
        THEN [ ret |-> rd1.ret, nr_zones |-> nr, zones |-> << >>,
               reads |-> << rd1 >> ]
        ELSE IF nz # 0 /\ has_zones
        THEN IF nz1 = 0
             THEN [ ret |-> 0, nr_zones |-> 0, zones |-> << >>,
                    reads |-> << rd1 >> ]
             ELSE [ ret |-> l.ret,
                    nr_zones |-> IF l.done THEN Len(l.zones) ELSE nr,
                    zones |-> l.zones, reads |-> l.reads ]
        ELSE [ ret |-> 0, nr_zones |-> nz, zones |-> << >>,
               reads |-> << rd1 >> ]

\* One call of the ATA backend's zbd_report_zones.
zbc_ata_report_zones ==
    /\ zac.pc = "idle"
    /\ \E disk \in AtaDisks, start_lba \in { 0, ZoneSectors, 2 * ZoneSectors },
          ro \in ReportingOptions, has_zones \in BOOLEAN,
          mem \in BOOLEAN :
       \E nr \in AtaRoom(disk),
          stale \in (IF disk.bogus > 0 THEN { 0, 165 } ELSE { 0 }),
          fail \in (IF mem THEN 0 .. 2 ELSE { 0 }) :
         LET r == ata_report_zones(disk, start_lba, ro, has_zones, nr,
                                   stale, fail, mem)
         IN  zac' = [ pc |-> "done", fn |-> "report_zones",
                      disk |-> disk, start_lba |-> start_lba, ro |-> ro,
                      has_zones |-> has_zones, nr |-> nr,
                      ret |-> r.ret, nr_zones |-> r.nr_zones,
                      zones |-> r.zones, reads |-> r.reads ]
    /\ UNCHANGED << ioVars, openVars, iz, hd, rz, mp >>

---------------------------------------------------------------------------
\* The ATA backend: zbc_ata_classify and zbc_ata_get_info under
\* zbc_ata_open.

ZBC_ATA_REPORT_ZONES_LOG_PAGE == 26

\* The bytes a device may return at desc[9] and desc[11] of the sense data
\* of EXECUTE DEVICE DIAGNOSTIC: 0x00, 0x01, 0xAB, 0xCD.
AtaSigBytes == { 0, 1, 171, 205 }

\* The log directory (log 0x00, page 0) of a device whose Report Zones log
\* has `pages` pages: word 0x1A holds the count, little-endian.
AtaLogDirectory(pages) ==
    [ a \in 0 .. AtaPageSize - 1 |->
        IF a = ZBC_ATA_REPORT_ZONES_LOG_PAGE * 2 THEN pages % 256
        ELSE IF a = ZBC_ATA_REPORT_ZONES_LOG_PAGE * 2 + 1 THEN pages \div 256
        ELSE 0 ]

\* zbc_ata_report_zones_pages(dev): rd is what zbc_ata_read_log returns,
\* buf the directory it read.
zbc_ata_report_zones_pages(rd, buf) ==
    IF rd = 0
    THEN zbc_ata_get_word(buf, ZBC_ATA_REPORT_ZONES_LOG_PAGE * 2)
    ELSE rd

\* Faulty variant of ata_signature: one matching byte is enough.
ata_signature_either(d9, d11) ==
    IF d9 = 205 \/ d11 = 171 THEN "ZAC"
    ELSE IF d9 = 0 \/ d11 = 0 THEN "STANDARD"
    ELSE "UNSUPPORTED"

\* The tests of the device signature in zbc_ata_classify.
ata_signature(d9, d11) ==
    IF d9 = 205 /\ d11 = 171 THEN "ZAC"
    ELSE IF d9 = 0 /\ d11 = 0 THEN "STANDARD"
    ELSE "UNSUPPORTED"

\* zbc_ata_classify(dev): cmd_init and exec are what zbc_sg_cmd_init and
\* zbc_sg_cmd_exec return, sig the signature bytes, rd and pages the read of
\* the log directory. zbd_type and zbd_model are "UNSET" (the zero of
\* calloc) until the function assigns them.
zbc_ata_classify(cmd_init, exec, sig, rd, pages) ==
    LET unset == [ ret |-> 0, zbd_type |-> "UNSET", zbd_model |-> "UNSET",
                   cmds |-> << >> ]
        diag  == [ unset EXCEPT !.cmds = << "EXEC_DEV_DIAGNOSTIC" >> ]
        is_ata == [ diag EXCEPT !.zbd_type = "ATA" ]
        np    == zbc_ata_report_zones_pages(rd, AtaLogDirectory(pages))
        kind  == ata_signature(sig[1], sig[2])
    IN  IF cmd_init # 0 THEN [ unset EXCEPT !.ret = cmd_init ]
        ELSE IF exec # 0 THEN [ diag EXCEPT !.ret = exec ]
        ELSE IF kind = "ZAC"
        THEN [ is_ata EXCEPT !.zbd_model = "HOST_MANAGED" ]
        ELSE IF kind = "STANDARD"
        THEN [ is_ata EXCEPT
                 !.ret = np,
                 !.zbd_model = IF np = 0 THEN "DRIVE_MANAGED"
                               ELSE IF np > 0 THEN "HOST_AWARE"
                               ELSE "UNSET",
                 !.cmds = diag.cmds \o << "READ_LOG_DIRECTORY" >> ]
        ELSE [ is_ata EXCEPT !.ret = -ENXIO ]

\* q + 1 in 64 bits.
qword_inc(q) ==
    IF q[1] < 65535 THEN << q[1] + 1, q[2], q[3], q[4] >>
    ELSE IF q[2] < 65535 THEN << 0, q[2] + 1, q[3], q[4] >>
    ELSE IF q[3] < 65535 THEN << 0, 0, q[3] + 1, q[4] >>
    ELSE IF q[4] < 65535 THEN << 0, 0, 0, q[4] + 1 >>
    ELSE << 0, 0, 0, 0 >>

\* 1 << cmd.out_buf[13] & 0x0f: the shift binds tighter than the mask.
logical_per_physical(b13) == (2 ^ b13) % 16

\* The replies to READ CAPACITY 16 of the model: whether zbc_sg_cmd_init and
\* zbc_sg_cmd_exec succeed, the last LBA, the logical block size and byte
\* 13 (the exponent of the logical blocks per physical block).
AtaCapacities ==
    [ cmd_init : { 0, -ENOMEM }, exec : { 0, -EIO },
      last_lba : { Q(7), Q(65535), << 65535, 65535, 65535, 65535 >> },
      lbs : { 0, SectorSize }, b13 : { 0, 3, 4 } ]

\* zbc_ata_get_info(dev): c the outcome of zbc_ata_classify, cap the reply
\* to READ CAPACITY 16. trap is set where the division by
\* logical_per_physical divides by zero.
zbc_ata_get_info(c, cap) ==
    LET blocks == qword_inc(cap.last_lba)
        lpp    == logical_per_physical(cap.b13)
        base   == [ ret |-> c.ret, zbd_type |-> c.zbd_type,
                    zbd_model |-> c.zbd_model, cmds |-> c.cmds,
                    zbd_logical_blocks |-> Q(0),
                    zbd_logical_block_size |-> 0,
                    zbd_physical_block_size |-> 0,
                    zbd_physical_blocks |-> 0, trap |-> FALSE ]
        asked  == [ base EXCEPT !.cmds = c.cmds \o << "READ_CAPACITY_16" >> ]
        got    == [ asked EXCEPT !.zbd_logical_blocks = blocks,
                                 !.zbd_logical_block_size = cap.lbs ]
    IN  IF c.ret < 0 THEN base
        ELSE IF c.zbd_model = "DRIVE_MANAGED" THEN [ base EXCEPT !.ret = -ENXIO ]
        ELSE IF cap.cmd_init # 0 THEN [ base EXCEPT !.ret = cap.cmd_init ]
        ELSE IF cap.exec # 0 THEN [ asked EXCEPT !.ret = cap.exec ]
        ELSE IF cap.lbs <= 0 THEN [ got EXCEPT !.ret = -EINVAL ]
        ELSE IF blocks = Q(0) THEN [ got EXCEPT !.ret = -EINVAL ]
        ELSE IF lpp = 0 THEN [ got EXCEPT !.ret = 0, !.trap = TRUE ]
        ELSE [ got EXCEPT
                 !.ret = 0,
                 !.zbd_physical_block_size = cap.lbs * lpp,
                 !.zbd_physical_blocks = Num(blocks) \div lpp ]

\* The device information of a handle zbc_ata_get_info was not called on.
AtaNoInfo ==
    [ ret |-> 0, zbd_type |-> "UNSET", zbd_model |-> "UNSET",
      cmds |-> << >>, zbd_logical_blocks |-> Q(0),
      zbd_logical_block_size |-> 0, zbd_physical_block_size |-> 0,
      zbd_physical_blocks |-> 0, trap |-> FALSE ]

\* The answers of a device that is not asked anything.
AtaSilent ==
    [ cmd_init |-> 0, exec |-> 0, sig |-> << 0, 0 >>, rd |-> 0, pages |-> 0,
      cap |-> [ cmd_init |-> 0, exec |-> 0, last_lba |-> Q(7), lbs |-> 0,
                b13 |-> 0 ] ]

\* The answers of the devices of the model to EXECUTE DEVICE DIAGNOSTIC, to
\* the read of the log directory and to READ CAPACITY 16; a device that is
\* not asked for its log directory has none.
AtaAnswers ==
    { a \in [ cmd_init : { 0, -ENOMEM }, exec : { 0, -EIO },
              sig : AtaSigBytes \X AtaSigBytes, rd : { 0, -EIO },
              pages : { 0, 1, 258 }, cap : AtaCapacities ] :
        /\ (a.cmd_init # 0 \/ a.exec # 0 \/ a.sig # << 0, 0 >>) =>
              (a.rd = 0 /\ a.pages = 0)
        /\ (a.rd # 0) => a.pages = 0 }

\* zbc_ata_open(filename, flags, pdev) on a device file that opens: a fault
\* before zbc_ata_get_info, or zbc_ata_get_info run on the device's answers.
zbc_ata_open_probe ==
    /\ zac.pc = "idle"
    /\ \E fault \in { "fstat", "mode", "calloc", "strdup", "none" } :
       \E a \in (IF fault = "none" THEN AtaAnswers ELSE { AtaSilent }) :
         LET c == zbc_ata_classify(a.cmd_init, a.exec, a.sig, a.rd, a.pages)
             g == IF fault = "none" THEN zbc_ata_get_info(c, a.cap)
                  ELSE AtaNoInfo
             f == IF fault # "none" THEN fault
                  ELSE IF g.ret # 0 THEN "get_info" ELSE "none"
             res == zbc_ata_open(f, IF f = "get_info" THEN g.ret ELSE -EIO)
         IN  zac' = [ pc |-> IF g.trap THEN "trap" ELSE "done",
                      fn |-> "open", fault |-> fault, dev |-> a,
                      info |-> g, ret |-> res.ret, res |-> res ]
    /\ UNCHANGED << ioVars, openVars, iz, hd, rz, mp >>

---------------------------------------------------------------------------
\* The ATA backend: zbc_ata_pread and zbc_ata_pwrite, READ DMA EXT and WRITE
\* DMA EXT in an ATA PASS-THROUGH (16) CDB.

ZBC_ATA_READ_DMA_EXT == 37

ZBC_ATA_WRITE_DMA_EXT == 53

\* The largest lba_count zbc_ata_pread and zbc_ata_pwrite take.
AtaMaxCount == 65536

\* a + b in 64 bits.
qword_add(a, b) ==
    LET s1 == a[1] + b[1]
        s2 == a[2] + b[2] + s1 \div 65536
        s3 == a[3] + b[3] + s2 \div 65536
        s4 == a[4] + b[4] + s3 \div 65536
    IN  << s1 % 65536, s2 % 65536, s3 % 65536, s4 % 65536 >>

\* (lba >> sh) & 0xff, sh a multiple of 8.
shift_mask(lba, sh) == (lba[sh \div 16 + 1] \div (2 ^ (sh % 16))) % 256

\* cdb[5] and cdb[6]: (lba_count >> 8) % 0xff and lba_count % 0xff, stored
\* in a uint8_t.
ata_count_bytes(lba_count) ==
    << ((lba_count \div 256) % 255) % 256, (lba_count % 255) % 256 >>

\* The CDB zbc_ata_pread (write = FALSE) and zbc_ata_pwrite (write = TRUE)
\* fill; zbc_sg_cmd_init has zeroed it.
ata_rw_cdb(write, lba, lba_count) ==
    [ k \in 0 .. 15 |->
        CASE k = 0  -> 133
          [] k = 1  -> 13
          [] k = 2  -> IF write THEN 22 ELSE 30
          [] k = 5  -> ata_count_bytes(lba_count)[1]
          [] k = 6  -> ata_count_bytes(lba_count)[2]
          [] k = 7  -> shift_mask(lba, 24)
          [] k = 8  -> shift_mask(lba, 0)
          [] k = 9  -> shift_mask(lba, 32)
          [] k = 10 -> shift_mask(lba, 8)
          [] k = 11 -> shift_mask(lba, 40)
          [] k = 12 -> shift_mask(lba, 16)
          [] k = 13 -> 64
          [] k = 14 -> IF write THEN ZBC_ATA_WRITE_DMA_EXT
                       ELSE ZBC_ATA_READ_DMA_EXT
          [] OTHER  -> 0 ]

\* No CDB: the command was not issued.
AtaNoCdb == [ k \in 0 .. 15 |-> 0 ]

\* zbc_ata_pread / zbc_ata_pwrite(dev, zone, buf, lba_count, lba_ofst):
\* `garbage` is the value of the uninitialised ret returned for an
\* lba_count above 65536, cmd_init and exec what zbc_sg_cmd_init and
\* zbc_sg_cmd_exec return, resid the bytes the device left untransferred.
zbc_ata_rw(write, zbz_start, lba_ofst, lba_count, garbage, cmd_init, exec, resid) ==
    LET lba == qword_add(zbz_start, lba_ofst)
        sz  == lba_count * SectorSize
        cdb == ata_rw_cdb(write, lba, lba_count)
    IN  IF lba_count > AtaMaxCount
        THEN [ ret |-> garbage, issued |-> FALSE, lba |-> lba,
               cdb |-> AtaNoCdb ]
        ELSE IF cmd_init # 0
        THEN [ ret |-> cmd_init, issued |-> FALSE, lba |-> lba,
               cdb |-> AtaNoCdb ]
        ELSE [ ret |-> IF exec = 0 THEN (sz - resid) \div SectorSize
                       ELSE exec,
               issued |-> TRUE, lba |-> lba, cdb |-> cdb ]

\* The zone starts and the offsets in the zone of the calls of the model.
AtaRwStarts == { Q(0), << 65535, 65535, 0, 0 >>, << 4113, 8755, 13397, 0 >> }

AtaRwOffsets == { Q(0), Q(1), << 61183, 258, 0, 0 >> }

\* The lba_count of the calls of the model.
AtaRwCounts == { 0, 1, 254, 255, 256, 4660, 65535, 65536, 65537 }

\* One call of the ATA backend's zbd_pread or zbd_pwrite.
zbc_ata_pread_pwrite ==
    /\ zac.pc = "idle"
    /\ \E write \in BOOLEAN, zbz_start \in AtaRwStarts,
          lba_ofst \in AtaRwOffsets, lba_count \in AtaRwCounts :
       \E garbage \in (IF lba_count > AtaMaxCount THEN { -EINVAL, 0, 1 }
                       ELSE { 0 }),
          cmd_init \in (IF lba_count > AtaMaxCount THEN { 0 }
                        ELSE { 0, -ENOMEM }) :
       \E exec \in (IF lba_count > AtaMaxCount \/ cmd_init # 0 THEN { 0 }
                    ELSE { 0, -EIO }) :
       \E resid \in (IF lba_count > AtaMaxCount \/ cmd_init # 0 \/ exec # 0
                        \/ lba_count = 0
                     THEN { 0 } ELSE { 0, SectorSize }) :
         LET r == zbc_ata_rw(write, zbz_start, lba_ofst, lba_count, garbage,
                             cmd_init, exec, resid)
         IN  zac' = [ pc |-> "done",
                      fn |-> IF write THEN "pwrite" ELSE "pread",
                      zbz_start |-> zbz_start, lba_ofst |-> lba_ofst,
                      lba_count |-> lba_count, lba |-> r.lba,
                      issued |-> r.issued, cdb |-> r.cdb, ret |-> r.ret ]
    /\ UNCHANGED << ioVars, openVars, iz, hd, rz, mp >>

NextZac ==
    \/ zbc_ata_report_zones
    \/ zbc_ata_open_probe
    \/ zbc_ata_pread_pwrite

InitZac ==
    /\ zac = ZacIdle
    /\ IOIdle
    /\ OpenIdle
    /\ iz = IzIdle
    /\ hd = HdIdle
    /\ rz = RzIdle
    /\ mp = MpIdle

\* The ATA backend: one call of one of its operations.
SpecZac == InitZac /\ [][NextZac]_vars

---------------------------------------------------------------------------
\* zbc_map_iov

\* iovcnt * iovlen in a size_t of 32 bits, as two 16-bit limbs, the low one
\* first: the product modulo 2^32. iovcnt is positive where this is
\* computed.
map_iov_room(iovcnt, iovlen) ==
    LET lo == iovcnt * (iovlen % 65536)
        hi == iovcnt * (iovlen \div 65536) + lo \div 65536
    IN  << lo % 65536, hi % 65536 >>

\* sectors > iovcnt * iovlen, for sectors below 2^16.
map_iov_exceeds(sectors, iovcnt, iovlen) ==
    LET room == map_iov_room(iovcnt, iovlen)
    IN  room[2] = 0 /\ sectors > room[1]

\* The test that opens zbc_map_iov: buf and iov are addresses, 0 for NULL.
map_iov_invalid(buf, sectors, iov_base, iovcnt, iovlen) ==
    \/ buf = 0
    \/ sectors = 0
    \/ iov_base = 0
    \/ iovcnt <= 0
    \/ map_iov_exceeds(sectors, iovcnt, iovlen)

RECURSIVE map_iov_loop(_, _, _, _)
\* while (sectors) of zbc_map_iov: the entries written, `out` being those
\* written so far. An entry's length is in sectors, its base in bytes.
map_iov_loop(buf, sectors, iovlen, out) ==
    IF sectors = 0 THEN out
    ELSE LET len == IF sectors > iovlen THEN iovlen ELSE sectors
         IN  map_iov_loop(buf + sect_bytes(len), sectors - len, iovlen,
                 Append(out, [ iov_base |-> buf, iov_len |-> len ]))

\* zbc_map_iov(buf, sectors, iov, iovcnt, iovlen): the value returned and
\* the entries written to iov.
map_iov(buf, sectors, iov_base, iovcnt, iovlen) ==
    IF map_iov_invalid(buf, sectors, iov_base, iovcnt, iovlen)
    THEN [ ret |-> -EINVAL, entries |-> << >> ]
    ELSE LET out == map_iov_loop(buf, sectors, iovlen, << >>)
         IN  [ ret |-> Len(out), entries |-> out ]

\* The addresses a caller passes: NULL and the address of an object.
MapAddrs == { 0, 4096 }

\* The sector counts of a caller's buffer.
MapSectors == 0 .. 2 * MaxLen + 1

\* The entry counts a caller passes: negative, zero, and up to 4.
MapIovCnts == -1 .. 4

\* The entry sizes a caller passes, in sectors: none, small ones, and 2^30,
\* of which four make 2^32.
MapIovLens == 0 .. MaxLen \cup { 1073741824 }

\* One zbc_map_iov call.
zbc_map_iov ==
    /\ mp.pc = "idle"
    /\ \E buf \in MapAddrs, sectors \in MapSectors, iov_base \in MapAddrs,
          iovcnt \in MapIovCnts, iovlen \in MapIovLens :
         LET r == map_iov(buf, sectors, iov_base, iovcnt, iovlen)
         IN  mp' = [ pc |-> "done", buf |-> buf, sectors |-> sectors,
                     iov |-> iov_base, iovcnt |-> iovcnt, iovlen |-> iovlen,
                     ret |-> r.ret, entries |-> r.entries ]
    /\ UNCHANGED << ioVars, openVars, iz, hd, rz, zac >>

NextMapIov == zbc_map_iov

InitMapIov ==
    /\ mp = MpIdle
    /\ IOIdle
    /\ OpenIdle
    /\ iz = IzIdle
    /\ hd = HdIdle
    /\ rz = RzIdle
    /\ zac = ZacIdle

\* The vector builder: one zbc_map_iov call.
SpecMapIov == InitMapIov /\ [][NextMapIov]_vars

\* A zbc_ata_report_zones call into a zone array has returned 0.
AtaReported ==
    /\ zac.pc = "done" /\ zac.fn = "report_zones"
    /\ zac.has_zones /\ zac.ret = 0

\* The zones the device lists under the caller's filter.
ListedByDevice == AtaLogZones(zac.disk, zac.ro.opt)

\* C22: the zones the ATA backend's report_zones returns for a start sector
\* inside the device all end after start_lba.
C22_ReportFromStart ==
    (AtaReported /\ zac.disk.bogus = 0 /\ zac.disk.zones # << WideZone >>
        /\ zac.start_lba < Len(zac.disk.zones) * ZoneSectors) =>
        \A i \in 1 .. Len(zac.zones) :
            Num(zac.zones[i].zbz_start) + Num(zac.zones[i].zbz_length)
                > zac.start_lba

\* C25: when the zone count of the log's header exceeds the descriptors the
\* device returned, and the caller's array has room for more zones than were
\* returned, zbc_ata_report_zones fails with -EIO.
C25_MalformedLogIsError ==
    (zac.pc = "done" /\ zac.fn = "report_zones" /\ zac.has_zones
        /\ zac.disk.bogus > 0 /\ zac.nr > Len(ListedByDevice)
        /\ \A k \in 1 .. Len(zac.reads) : zac.reads[k].ret = 0
        /\ zac.reads # << >>) =>
        zac.ret = -EIO

\* C26: the zones zbc_ata_report_zones decodes are the zones the device
\* wrote into the log, field by field: type from the low nibble of byte 0,
\* condition from the high nibble of byte 1, need_reset from bit 0 of byte
\* 1, length, start and write pointer from the little-endian qwords at bytes
\* 8, 16 and 24 of each 64-byte descriptor, the first descriptor at byte 64
\* of the first page; a count query returns the little-endian count of the
\* first four bytes.
C26_DescriptorDecoding ==
    (zac.pc = "done" /\ zac.fn = "report_zones" /\ zac.ret = 0
        /\ zac.disk.bogus = 0) =>
        IF zac.has_zones
        THEN /\ Len(zac.zones)
                  = (IF zac.nr < Len(ListedByDevice) THEN zac.nr
                     ELSE Len(ListedByDevice))
             /\ \A i \in 1 .. Len(zac.zones) :
                    zac.zones[i] = ListedByDevice[i]
             /\ zac.nr_zones = Len(zac.zones)
        ELSE zac.nr_zones = Len(ListedByDevice)

\* The wide zone decoded: every byte of its three qwords is used.
C26_Witness ==
    /\ AtaReported /\ zac.disk.zones = << WideZone >>
    /\ zac.zones = << WideZone >>
    /\ zac.zones[1].zbz_start = << 4113, 8755, 13397, 18039 >>

\* zbc_ata_open got an answer to EXECUTE DEVICE DIAGNOSTIC.
Diagnosed ==
    /\ zac.pc \in { "done", "trap" } /\ zac.fn = "open"
    /\ zac.fault = "none" /\ zac.dev.cmd_init = 0 /\ zac.dev.exec = 0

\* zbc_ata_open went on to READ CAPACITY 16 and fails only where that
\* command or the capacity it returns is bad.
OpenProceeds ==
    /\ zac.info.cmds[Len(zac.info.cmds)] = "READ_CAPACITY_16"
       \/ zac.dev.cap.cmd_init # 0
    /\ (zac.pc = "done" /\ zac.dev.cap.cmd_init = 0 /\ zac.dev.cap.exec = 0
           /\ zac.dev.cap.lbs > 0
           /\ qword_inc(zac.dev.cap.last_lba) # Q(0)) =>
          (zac.ret = 0 /\ zac.res.pdev)

\* C23: after a successful EXECUTE DEVICE DIAGNOSTIC, the signature
\* (0xCD, 0xAB) makes the device HOST_MANAGED and the open goes on; the
\* signature (0x00, 0x00) with a non-zero page count of the Report Zones log
\* makes it HOST_AWARE and the open goes on, with a zero count the open
\* returns -ENXIO (not my device); any other signature makes the open return
\* -ENXIO.
C23_Signature ==
    Diagnosed =>
        IF zac.dev.sig = << 205, 171 >>
        THEN zac.info.zbd_model = "HOST_MANAGED" /\ OpenProceeds
        ELSE IF zac.dev.sig = << 0, 0 >>
        THEN (zac.dev.rd = 0 /\ zac.dev.pages > 0 =>
                 zac.info.zbd_model = "HOST_AWARE" /\ OpenProceeds)
             /\ (zac.dev.rd = 0 /\ zac.dev.pages = 0 =>
                 zac.ret = -ENXIO /\ ~zac.res.pdev)
        ELSE zac.ret = -ENXIO /\ ~zac.res.pdev

\* A standard signature with a Report Zones log of 258 pages: the open
\* succeeds on a HOST_AWARE device.
C23_Witness ==
    /\ Diagnosed /\ zac.pc = "done" /\ zac.dev.sig = << 0, 0 >>
    /\ zac.dev.pages = 258 /\ zac.info.zbd_model = "HOST_AWARE"
    /\ zac.ret = 0 /\ zac.res.pdev

\* The sector count of a READ/WRITE DMA EXT CDB.
CdbCount == zac.cdb[5] * 256 + zac.cdb[6]

\* The LBA of a READ/WRITE DMA EXT CDB: bits 7:0, 15:8, 23:16 in bytes 8,
\* 10, 12 and bits 31:24, 39:32, 47:40 in bytes 7, 9, 11.
CdbLba ==
    << zac.cdb[8] + zac.cdb[10] * 256, zac.cdb[12] + zac.cdb[7] * 256,
       zac.cdb[9] + zac.cdb[11] * 256, 0 >>

\* zbc_ata_pread or zbc_ata_pwrite has sent a CDB for an LBA below 2^48 and
\* a count below 2^16.
CdbSent ==
    /\ zac.pc = "done" /\ zac.fn \in { "pread", "pwrite" } /\ zac.issued
    /\ zac.lba[4] = 0 /\ zac.lba_count < 65536

\* C24: the CDB zbc_ata_pread and zbc_ata_pwrite build for an LBA below
\* 2^48 and a count below 2^16 decodes back to that LBA and that count.
C24_CdbRoundTrip ==
    CdbSent => (CdbLba = zac.lba /\ CdbCount = zac.lba_count)

---------------------------------------------------------------------------
\* Argument validation of the handle's operations (checked under
\* SpecHandle).

\* A zbc_preadv or zbc_pwritev call on the open handle has returned.
VectorCall ==
    hd.pc = "open" /\ hd.op \in { "zbc_preadv", "zbc_pwritev" }

\* C27: zbc_preadv and zbc_pwritev return -EINVAL, without a backend call,
\* for a NULL vector, for iovcnt <= 0 and for a vector whose total, in
\* bytes, is above SSIZE_MAX.
C27_VectorArgs ==
    (VectorCall
        /\ (\/ hd.args.null
            \/ Len(hd.args.iov) <= 0
            \/ zbc_iov_count(hd.args.iov) > SSIZE_MAX \div SectorSize)) =>
        (hd.ret = -EINVAL /\ hd.calls = << >>)

\* A zbc_set_zones or zbc_set_write_pointer call on the open handle has
\* returned.
OptionalCall ==
    hd.pc = "open" /\ hd.op \in { "zbc_set_zones", "zbc_set_write_pointer" }

\* One of the two arguments of the call is not aligned on the physical
\* block of the device.
Misaligned ==
    \/ ~zbc_dev_sect_paligned(hd.device, hd.args[1])
    \/ ~zbc_dev_sect_paligned(hd.device, hd.args[2])

\* C28: on a handle whose backend lacks the operation, zbc_set_zones and
\* zbc_set_write_pointer return -ENXIO whatever the arguments, aligned or
\* not, without a backend call; on a backend that has it, an argument that
\* is not aligned on the physical block makes them return -EINVAL without a
\* backend call.
C28_OptionalOps ==
    OptionalCall =>
        /\ ~has_set_zones(hd.zbd_drv) =>
              (hd.ret = -ENXIO /\ hd.calls = << >>)
        /\ (has_set_zones(hd.zbd_drv) /\ Misaligned) =>
              (hd.ret = -EINVAL /\ hd.calls = << >>)

\* zbc_set_write_pointer with a misaligned sector on a backend without
\* zbd_set_wp: the missing operation is reported, not the argument.
C28_Witness ==
    /\ OptionalCall /\ hd.op = "zbc_set_write_pointer"
    /\ ~has_set_zones(hd.zbd_drv) /\ Misaligned
    /\ hd.ret = -ENXIO /\ hd.calls = << >>

\* The operations of the claim: the transfers, the zone operation and the
\* two optional operations.
ValidatingOps ==
    { "zbc_pread", "zbc_pwrite", "zbc_preadv", "zbc_pwritev",
      "zbc_zone_operation", "zbc_set_zones", "zbc_set_write_pointer" }

\* The step is a call on the open handle that fails in the library's own
\* validation: -EINVAL or -ENXIO, no backend having been called.
LocalFailure ==
    /\ hd.pc = "open" /\ hd'.pc = "open"
    /\ hd'.op \in ValidatingOps
    /\ hd'.ret \in { -EINVAL, -ENXIO } /\ hd'.calls = << >>

\* C29: a call that fails in the library's own validation leaves the
\* thread's error record as it was before the call, and zbc_errno returns a
\* copy of the record.
C29_ErrnoFrame ==
    /\ [][LocalFailure => hd'.zerrno = hd.zerrno]_vars
    /\ [](hd.pc = "open" /\ hd.op = "zbc_errno" => hd.args.err = hd.zerrno)

\* zbc_set_zones refused for a missing operation after a backend had written
\* the error record: the record still holds the backend's sense.
C29_Witness ==
    /\ hd.pc = "open" /\ hd.op = "zbc_set_zones" /\ hd.ret = -ENXIO
    /\ hd.calls = << >> /\ hd.zerrno \in Senses

---------------------------------------------------------------------------
\* The scratch vector of a backend call (checked under SpecIO).

\* Entry e of a scratch vector has a non-zero length and lies inside entry
\* e.idx of the caller's vector.
InsideInput(e) ==
    /\ e.len > 0 /\ e.off >= 0
    /\ e.idx \in 1 .. Len(iov)
    /\ e.off + e.len <= iov[e.idx] * SectorSize

\* C30: the scratch vector of every backend call has at most iovcnt entries,
\* each of a non-zero length and inside one entry of the caller's vector;
\* when the caller's vector holds the window (at least sector_offset +
\* sectors sectors), the entries' lengths sum to sectors * 512 bytes.
C30_ScratchVector ==
    \A k \in 1 .. Len(calls) :
        /\ Len(calls[k].vec) <= Len(iov)
        /\ \A j \in 1 .. Len(calls[k].vec) : InsideInput(calls[k].vec[j])
        /\ zbc_iov_count(iov) >= calls[k].at + calls[k].sectors =>
              VecBytes(calls[k].vec) = calls[k].sectors * SectorSize

\* A window that starts inside the first entry of the caller's vector and
\* ends inside the second: two scratch entries, the first past the start of
\* its input entry, the second cut short.
C30_Witness ==
    \E k \in 1 .. Len(calls) :
        /\ Len(calls[k].vec) = 2 /\ calls[k].sectors = 2
        /\ calls[k].vec[1].idx = 1 /\ calls[k].vec[1].off > 0
        /\ calls[k].vec[2].idx = 2
        /\ calls[k].vec[2].len < iov[2] * SectorSize

---------------------------------------------------------------------------
\* The splitter's loop: progress and termination (checked under
\* SpecIOLive).

\* The step is a round of the loop whose backend call returned r > 0.
RoundOf(r) ==
    /\ pc = "loop" /\ Len(calls') = Len(calls) + 1
    /\ calls'[Len(calls')].ret = r /\ r > 0

\* Where the loop stands after the calls made so far: every call but the
\* last returned a positive count, each call was made at the cursor the
\* returns before it add up to, and a request of count sectors takes at
\* most count calls.
LoopProgress ==
    /\ \A k \in 1 .. Len(calls) :
          /\ calls[k].at = SumRets(calls, k - 1)
          /\ calls[k].offset = req_offset + SumRets(calls, k - 1)
          /\ k < Len(calls) => calls[k].ret > 0
    /\ Len(calls) <= count \/ calls = << >>
    /\ (pc = "done" /\ calls # << >>) =>
          \/ AllPositive /\ ret = count /\ SumRets(calls, Len(calls)) = count
          \/ Failed

\* C31: each round of the loop advances the cursor and the device offset by
\* the sectors the backend call returned; a request of count sectors makes
\* at most count backend calls and ends with count returned after the calls
\* consumed it all, or at the first call that returns zero or an error; and
\* the call does end.
C31_LoopTerminates ==
    /\ [][\A r \in 1 .. MaxIov * MaxLen :
            RoundOf(r) => (pc' = "loop" => /\ iov_offset' = iov_offset + r
                                           /\ offset' = offset + r)]_vars
    /\ []LoopProgress
    /\ <>(pc = "done")

\* A write of three backend calls, the second of them short, that ended
\* with the whole request written.
C31_Witness ==
    /\ pc = "done" /\ op = "write" /\ Len(calls) = 3 /\ AllPositive
    /\ calls[2].ret < calls[2].sectors
    /\ ret = count /\ SumRets(calls, 3) = count

---------------------------------------------------------------------------
\* The accumulating loop of zbc_report_zones over any backend (checked under
\* SpecReport).

\* zbc_report_zones into a zone array has returned, the backend honest or
\* not.
AccumulatingCall ==
    /\ rz.pc = "done" /\ rz.fn \in { "report", "report_misbehaving" }
    /\ rz.buf

\* C32: the accumulating loop of zbc_report_zones ends whatever the backend
\* reports. Every round but the last returned 0 and filled in at least one
\* zone, so the index the next round fills in from is strictly larger; the
\* rounds number at most *nr_zones, also over a backend that reports
\* zero-length zones or zones that do not advance the start sector.
C32_ReportTerminates ==
    AccumulatingCall =>
        /\ Len(rz.calls) <= rz.nr
        /\ \A k \in 1 .. Len(rz.calls) - 1 :
              /\ rz.calls[k].ret = 0
              /\ Len(rz.calls[k].zones) >= 1
              /\ rz.calls[k + 1].at > rz.calls[k].at
        /\ \A k \in 1 .. Len(rz.calls) :
              rz.calls[k].asked = rz.nr - rz.calls[k].at

\* A backend that reports one zero-length zone per call: the start sector
\* never moves, and the loop ends after *nr_zones rounds with the array
\* full.
C32_Witness ==
    /\ AccumulatingCall /\ rz.fn = "report_misbehaving"
    /\ rz.nr = NumZones + 1 /\ Len(rz.calls) = rz.nr /\ rz.ret = 0
    /\ rz.nr_zones = rz.nr
    /\ \A k \in 1 .. Len(rz.calls) :
          /\ rz.calls[k].sector = rz.sector
          /\ rz.calls[k].zones[1].zbz_length = 0

\* C33: outside test mode, zbc_report_zones from a start sector at or beyond
\* the capacity returns 0 with *nr_zones = 0 and makes no backend call, with
\* a NULL zone array and with a zone array alike, whatever the backend would
\* have answered.
C33_PastEndEmpty ==
    \A form \in BOOLEAN :
        (Reported /\ PastEnd /\ rz.buf = form) =>
            /\ rz.ret = 0
            /\ rz.nr_zones = 0
            /\ rz.calls = << >>
            /\ rz.out = << >>

\* A report into a zone array of two descriptors from the sector equal to
\* the capacity, outside test mode: 0 zones and no backend call.
C33_Witness ==
    /\ Reported /\ PastEnd /\ rz.buf
    /\ rz.sector = rz.dev.zbd_sectors /\ rz.nr = 2
    /\ rz.ret = 0 /\ rz.nr_zones = 0 /\ rz.calls = << >>

\* The zone count in the header of the log the device returns under the
\* caller's filter.
AtaHeaderCount == Len(ListedByDevice) + zac.disk.bogus

\* The smaller of the header's count and the room of the caller's array.
AtaWanted ==
    IF AtaHeaderCount < zac.nr THEN AtaHeaderCount ELSE zac.nr

\* The descriptors the first k log reads of the call hold: 7 after the
\* header of the first page, bufsz / 64 in each later read.
RECURSIVE AtaHeld(_)
AtaHeld(k) ==
    IF k = 0 THEN 0
    ELSE IF k = 1
    THEN (zac.reads[1].bufsz - ZBC_ATA_ZONE_DESCRIPTOR_OFFSET)
             \div ZBC_ATA_ZONE_DESCRIPTOR_LENGTH
    ELSE AtaHeld(k - 1)
             + zac.reads[k].bufsz \div ZBC_ATA_ZONE_DESCRIPTOR_LENGTH

IzOpened == { k \in 1 .. Len(iz.probes) : iz.probes[k].ret = 0 }

\* C35: zbc_device_is_zoned leaks no handle. When it returns, the backend
\* whose zbd_open succeeded has had its zbd_close called exactly once,
\* whatever fake is and whatever the answer; no zbd_close is called when no
\* zbd_open succeeded; and no backend is probed after one has accepted.
C35_NoLeak ==
    iz.pc = "done" =>
        /\ \A k \in IzOpened : k = Len(iz.probes)
        /\ IF IzOpened = {}
           THEN iz.closes = << >>
           ELSE iz.closes = << iz.probes[Len(iz.probes)].drv >>
        /\ \A k \in 1 .. Len(iz.probes) - 1 : iz.probes[k].ret = -ENXIO

\* The emulator accepts after the block, SCSI and ATA backends declined and
\* the caller passed fake = false: the answer is 0 and the emulator's handle
\* was closed once.
C35_Witness ==
    /\ iz.pc = "done" /\ ~iz.fake /\ iz.ret = 0
    /\ iz.probes # << >>
    /\ iz.probes[Len(iz.probes)] = [ drv |-> "FAKE", ret |-> 0 ]
    /\ iz.closes = << "FAKE" >>

\* A zbc_zone_operation call on a handle not in test mode has returned.
ZoneOpCall ==
    /\ hd.pc = "open" /\ hd.op = "zbc_zone_operation"
    /\ ~zbc_test_mode(hd.device)

\* The sector of the call is not a multiple of the logical block size.
ZoneOpMisaligned ==
    (hd.args[1] * SectorSize) % hd.device.zbd_lblock_size # 0

\* C36: outside test mode, zbc_zone_operation on a sector that is not
\* aligned on a logical block, without ZBC_OP_ALL_ZONES, returns -EINVAL and
\* calls no backend. In every other case, the sector misaligned under
\* ZBC_OP_ALL_ZONES included, the backend's zbd_zone_op is called exactly
\* once with the caller's sector, op and flags, and its result is returned.
C36_ZoneOperation ==
    ZoneOpCall =>
        IF ZoneOpMisaligned /\ "ZBC_OP_ALL_ZONES" \notin hd.args[3]
        THEN hd.ret = -EINVAL /\ hd.calls = << >>
        ELSE /\ Len(hd.calls) = 1
             /\ hd.calls[1].fn = "zbd_zone_op"
             /\ hd.calls[1].drv = hd.zbd_drv
             /\ hd.calls[1].args = hd.args
             /\ hd.ret \in OpRets

\* A finish of all zones asked with a misaligned sector on a device of
\* 4096-byte logical blocks: the backend is called with that sector and its
\* failure is returned.
C36_Witness ==
    /\ ZoneOpCall /\ ZoneOpMisaligned
    /\ hd.args = << 1, "ZBC_OP_FINISH_ZONE", { "ZBC_OP_ALL_ZONES" } >>
    /\ Len(hd.calls) = 1 /\ hd.calls[1].args = hd.args
    /\ hd.ret = -EIO

\* The arguments of the zbc_map_iov call describe a buffer that fits in the
\* vector: buf and iov are not NULL, sectors and iovcnt are positive, and
\* sectors <= iovcnt * iovlen, which is ceil(sectors / iovlen) <= iovcnt.
MapFits ==
    /\ mp.buf # 0 /\ mp.iov # 0
    /\ mp.sectors > 0 /\ mp.iovcnt > 0 /\ mp.iovlen > 0
    /\ (mp.sectors + mp.iovlen - 1) \div mp.iovlen <= mp.iovcnt

\* The sectors of the first k entries written.
RECURSIVE MapSum(_)
MapSum(k) == IF k = 0 THEN 0 ELSE MapSum(k - 1) + mp.entries[k].iov_len

\* C37: for a buffer that fits in the vector, zbc_map_iov writes
\* k = ceil(sectors / iovlen) <= iovcnt entries, each of at most iovlen
\* sectors, that sum to sectors, entry i at buf + 512 * (the sectors of the
\* entries before it), and returns k; for any other arguments, iovlen = 0
\* among them, it returns -EINVAL and writes no entry.
C37_MapIov ==
    mp.pc = "done" =>
        IF MapFits
        THEN /\ mp.ret = (mp.sectors + mp.iovlen - 1) \div mp.iovlen
             /\ mp.ret <= mp.iovcnt
             /\ Len(mp.entries) = mp.ret
             /\ MapSum(Len(mp.entries)) = mp.sectors
             /\ \A i \in 1 .. Len(mp.entries) :
                   /\ mp.entries[i].iov_len <= mp.iovlen
                   /\ mp.entries[i].iov_base
                         = mp.buf + SectorSize * MapSum(i - 1)
        ELSE mp.ret = -EINVAL /\ mp.entries = << >>
====
